---- MODULE Spec2Model ----
(***************************************************************************)
(* Model of the conversion core of compresor-conversor-imagenes:          *)
(*   src/core/format_handler.py     generate_unique_filename, FormatHandler *)
(*   src/core/compression_engine.py CompressionEngine                      *)
(* Paths are sequences of one-character strings, so that os.path.splitext, *)
(* str.lower and str.replace are modelled by what they do to the text.     *)
(* The path functions are the POSIX ones (posixpath).                      *)
(***************************************************************************)
EXTENDS Integers, Sequences, FiniteSets, TLC

None == "None"

\* a call that has not been made yet
NoCall == [called |-> FALSE]

\* ------------------------------------------------------------------ text

\* str.lower on the letters that occur in the modelled paths
Lower(c) ==
  CASE c = "A" -> "a" [] c = "B" -> "b" [] c = "C" -> "c" [] c = "D" -> "d"
    [] c = "E" -> "e" [] c = "F" -> "f" [] c = "G" -> "g" [] c = "H" -> "h"
    [] c = "I" -> "i" [] c = "J" -> "j" [] c = "K" -> "k" [] c = "L" -> "l"
    [] c = "M" -> "m" [] c = "N" -> "n" [] c = "O" -> "o" [] c = "P" -> "p"
    [] c = "Q" -> "q" [] c = "R" -> "r" [] c = "S" -> "s" [] c = "T" -> "t"
    [] c = "U" -> "u" [] c = "V" -> "v" [] c = "W" -> "w" [] c = "X" -> "x"
    [] c = "Y" -> "y" [] c = "Z" -> "z" [] OTHER -> c

\* str.upper, the inverse letter map
Upper(c) ==
  CASE c = "a" -> "A" [] c = "b" -> "B" [] c = "c" -> "C" [] c = "d" -> "D"
    [] c = "e" -> "E" [] c = "f" -> "F" [] c = "g" -> "G" [] c = "h" -> "H"
    [] c = "i" -> "I" [] c = "j" -> "J" [] c = "k" -> "K" [] c = "l" -> "L"
    [] c = "m" -> "M" [] c = "n" -> "N" [] c = "o" -> "O" [] c = "p" -> "P"
    [] c = "q" -> "Q" [] c = "r" -> "R" [] c = "s" -> "S" [] c = "t" -> "T"
    [] c = "u" -> "U" [] c = "v" -> "V" [] c = "w" -> "W" [] c = "x" -> "X"
    [] c = "y" -> "Y" [] c = "z" -> "Z" [] OTHER -> c

LowerStr(s) == [i \in 1..Len(s) |-> Lower(s[i])]

UpperStr(s) == [i \in 1..Len(s) |-> Upper(s[i])]

\* s[a:b] of Python with 0 <= a, b <= len(s), as 1-based positions a+1..b
Slice(s, a, b) == IF b <= a THEN << >> ELSE SubSeq(s, a + 1, b)

\* str.rfind(c): the 0-based index of the last c in s, -1 when there is none
RFind(s, c) ==
  LET hits == {i \in 1..Len(s) : s[i] = c}
  IN  IF hits = {} THEN -1 ELSE (CHOOSE i \in hits : \A j \in hits : j <= i) - 1

StartsWithAt(s, old, i) ==
  /\ i + Len(old) - 1 <= Len(s)
  /\ \A k \in 1..Len(old) : s[i + k - 1] = old[k]

RECURSIVE ReplaceFrom(_, _, _, _)
ReplaceFrom(s, old, new, i) ==
  IF i > Len(s) THEN << >>
  ELSE IF StartsWithAt(s, old, i)
       THEN new \o ReplaceFrom(s, old, new, i + Len(old))
       ELSE << s[i] >> \o ReplaceFrom(s, old, new, i + 1)

\* str.replace(old, new) for a non-empty old: every non-overlapping occurrence,
\* scanning from the left
Replace(s, old, new) == ReplaceFrom(s, old, new, 1)

RECURSIVE LStrip(_, _)
\* str.lstrip(c)
LStrip(s, c) == IF s # << >> /\ s[1] = c THEN LStrip(Tail(s), c) ELSE s

RECURSIVE RStrip(_, _)
\* str.rstrip(c)
RStrip(s, c) ==
  IF s # << >> /\ s[Len(s)] = c THEN RStrip(SubSeq(s, 1, Len(s) - 1), c) ELSE s

Digit(d) ==
  CASE d = 0 -> "0" [] d = 1 -> "1" [] d = 2 -> "2" [] d = 3 -> "3" [] d = 4 -> "4"
    [] d = 5 -> "5" [] d = 6 -> "6" [] d = 7 -> "7" [] d = 8 -> "8" [] d = 9 -> "9"

RECURSIVE IntToStr(_)
\* the decimal text of a natural number, as an f-string formats it
IntToStr(n) == IF n < 10 THEN << Digit(n) >> ELSE IntToStr(n \div 10) \o << Digit(n % 10) >>

\* ------------------------------------------------------------- os.path

\* os.path.basename
basename(p) == Slice(p, RFind(p, "/") + 1, Len(p))

\* os.path.dirname: the head up to the last slash, trailing slashes stripped
\* unless the head is all slashes
dirname(p) ==
  LET head == Slice(p, 0, RFind(p, "/") + 1)
  IN  IF head # << >> /\ \E i \in 1..Len(head) : head[i] # "/"
      THEN RStrip(head, "/") ELSE head

RECURSIVE SplitScan(_, _, _)
\* the loop of genericpath._splitext: TRUE when a character other than the dot
\* stands between the file name's start and the last dot
SplitScan(p, filenameIndex, dotIndex) ==
  IF filenameIndex >= dotIndex THEN FALSE
  ELSE IF p[filenameIndex + 1] # "." THEN TRUE
  ELSE SplitScan(p, filenameIndex + 1, dotIndex)

\* os.path.splitext: << root, ext >>
splitext(p) ==
  LET sepIndex == RFind(p, "/")
      dotIndex == RFind(p, ".")
  IN  IF dotIndex > sepIndex /\ SplitScan(p, sepIndex + 1, dotIndex)
      THEN << Slice(p, 0, dotIndex), Slice(p, dotIndex, Len(p)) >>
      ELSE << p, << >> >>

\* os.path.join of two components
join(a, b) ==
  IF b # << >> /\ b[1] = "/" THEN b
  ELSE IF a = << >> \/ a[Len(a)] = "/" THEN a \o b
  ELSE a \o << "/" >> \o b

\* ------------------------------------------------------- filesystem

VARIABLES
  fs,        \* the files on disk: a function from path to content
  dirs,      \* the directories that exist (the core never creates one)
  clock,     \* what int(time.time()) reads
  aPath,     \* SpecAlloc: the desired path handed to generate_unique_filename
  aOut,      \* SpecAlloc: the call's outcome, None before the call
  aMade,     \* SpecAlloc: how many allocated paths the caller has created
  sImg,      \* SpecSave: the image handed to save_image_universal
  sDest,     \* SpecSave: the destination path handed to it
  sLast,     \* SpecSave: the last call, None before the first
  sCount,    \* SpecSave: how many calls have returned
  bpc,       \* SpecBatch: where compress_multiple_images is: idle, loop, returned, raised
  bArgs,     \* SpecBatch: the arguments of the call
  bI,        \* SpecBatch: the loop index i, 0-based
  results,   \* SpecBatch: the list results
  events,    \* SpecBatch: the callback calls made so far, in order
  itemLog,   \* SpecBatch: per loop iteration, what was run on which input
  eLast,     \* SpecEngine: the last call of a CompressionEngine method
  eCount,    \* SpecEngine: how many calls have returned
  cPc,       \* SpecConc: per conversion, where it is: start, allocated, written
  cDesired,  \* SpecConc: per conversion, the output path it asks for
  cGot,      \* SpecConc: per conversion, the path generate_unique_filename gave it
  cLog,      \* SpecConc: the allocations made so far, in order
  config,          \* SpecConfig: self.config, its list values held by reference
  default_config,  \* SpecConfig: self.default_config, likewise
  heap,            \* SpecConfig: the list objects the two dicts refer to
  cfgFile,         \* SpecConfig: what the configuration file holds
  cfgLast,         \* SpecConfig: the last ConfigManager call
  cfgCount,        \* SpecConfig: how many calls have returned
  history,   \* SpecHistory: self.history, entries named by the order they were made in
  max_items, \* SpecHistory: self.max_items
  hFile,     \* SpecHistory: what the history file holds
  hNext,     \* SpecHistory: the number the next new entry gets
  hEvicted,  \* SpecHistory: the entries the size limit has dropped
  hLast,     \* SpecHistory: the last HistoryManager call
  hCount,    \* SpecHistory: how many calls have returned
  selected_images, \* SpecGui: self.selected_images, rebound by the UI thread
  is_compressing,  \* SpecGui: self.is_compressing
  gPc,       \* SpecGui: where the worker thread is
  gImages,   \* SpecGui: the list the worker handed to the engine
  gResults,  \* SpecGui: the results the engine returned to the worker
  gI,        \* SpecGui: the index of the worker's history loop
  gLen,      \* SpecGui: the len(self.selected_images) the worker read last
  gCount     \* SpecGui: how many times the UI thread changed the selection

\* os.path.exists: a file or a directory of that name (the empty path never exists)
exists(files, ds, p) == p # << >> /\ (p \in files \/ p \in ds)

\* the loop bound of generate_unique_filename (counter > 100)
MaxCopies == 100

CopySuffix == << "_", "c", "o", "p", "y" >>

\* f"{name}_copy{counter}{ext}" joined to the directory
CopyName(directory, name, ext, counter) ==
  join(directory, name \o CopySuffix \o IntToStr(counter) \o ext)

\* f"{name}_{timestamp}{ext}" joined to the directory
StampName(directory, name, ext, timestamp) ==
  join(directory, name \o << "_" >> \o IntToStr(timestamp) \o ext)

\* the while loop of generate_unique_filename from `counter` on: the first
\* counter up to MaxCopies whose name is free, else the stamped name; probes is
\* the sequence of paths handed to os.path.exists so far
CopyLoop(files, ds, directory, name, ext, counter, timestamp, probes) ==
  LET taken(c) == exists(files, ds, CopyName(directory, name, ext, c))
      found == \E c \in counter..MaxCopies : ~taken(c)
      last == IF found
              THEN CHOOSE c \in counter..MaxCopies :
                     ~taken(c) /\ \A d \in counter..(c - 1) : taken(d)
              ELSE MaxCopies
      probed == probes \o [j \in 1..(last - counter + 1) |->
                             CopyName(directory, name, ext, counter + j - 1)]
  IN  IF found
      THEN [path |-> CopyName(directory, name, ext, last),
            probes |-> probed, stamped |-> FALSE]
      ELSE [path |-> StampName(directory, name, ext, timestamp),
            probes |-> probed, stamped |-> TRUE]

\* the same call with the counter started at 0 (a plausible slip)
UniqueRunFromZero(files, ds, output_path, timestamp) ==
  IF ~exists(files, ds, output_path)
  THEN [path |-> output_path, probes |-> << output_path >>, stamped |-> FALSE]
  ELSE LET filename == basename(output_path)
       IN  CopyLoop(files, ds, dirname(output_path), splitext(filename)[1],
                    splitext(filename)[2], 0, timestamp, << output_path >>)

\* the same call probing the stamped name too, and going on to _copy101
UniqueRunProbeAll(files, ds, output_path, timestamp) ==
  IF ~exists(files, ds, output_path)
  THEN [path |-> output_path, probes |-> << output_path >>, stamped |-> FALSE]
  ELSE LET filename == basename(output_path)
           directory == dirname(output_path)
           name == splitext(filename)[1]
           ext == splitext(filename)[2]
           run == CopyLoop(files, ds, directory, name, ext, 1, timestamp, << output_path >>)
           more == CopyName(directory, name, ext, MaxCopies + 1)
       IN  IF run.stamped
           THEN [path |-> IF exists(files, ds, more) THEN run.path ELSE more,
                 probes |-> Append(run.probes, more), stamped |-> exists(files, ds, more)]
           ELSE run

\* generate_unique_filename, with the paths it probed: [path, probes, stamped]
UniqueRun(files, ds, output_path, timestamp) ==
  IF ~exists(files, ds, output_path)
  THEN [path |-> output_path, probes |-> << output_path >>, stamped |-> FALSE]
  ELSE LET filename == basename(output_path)
       IN  CopyLoop(files, ds, dirname(output_path), splitext(filename)[1],
                    splitext(filename)[2], 1, timestamp, << output_path >>)

\* generate_unique_filename(output_path): the path it returns
generate_unique_filename(files, ds, output_path, timestamp) ==
  UniqueRun(files, ds, output_path, timestamp).path

\* ------------------------------------------ generate_unique_filename alone

\* how many of output_path, _copy1, _copy2, ... an initial disk may hold
MaxPrefill == 101

\* how many allocated paths the caller goes on to create
MaxAllocs == 2

\* readings of int(time.time())
Timestamps == {1700000000, 1700000001}

CwdDir == << >>

OutDir == << "o" >>

\* the desired paths tried: plain, in a directory, no extension, two dots,
\* a dot file, and the name of a directory
AllocPaths ==
  { << "a", ".", "p", "n", "g" >>,
    << "o", "/", "a", ".", "p", "n", "g" >>,
    << "a" >>,
    << "o", "/", "b", ".", "t", "a", "r", ".", "g", "z" >>,
    << ".", "r", "c" >>,
    << "o" >> }

\* the k-th name of the series output_path, _copy1, _copy2, ...
SeriesName(output_path, k) ==
  IF k = 0 THEN output_path
  ELSE CopyName(dirname(output_path), splitext(basename(output_path))[1],
                splitext(basename(output_path))[2], k)

SomeFile == [kind |-> "file", bytes |-> 1]

\* a disk holding the first k names of the series except the one at `gap`,
\* and the stamped names when `stamps`
Prefilled(output_path, k, gap, stamps) ==
  LET series == {SeriesName(output_path, j) : j \in (0..(k - 1)) \ {gap}}
      stamped == IF stamps
                 THEN {StampName(dirname(output_path), splitext(basename(output_path))[1],
                                 splitext(basename(output_path))[2], ts) : ts \in Timestamps}
                 ELSE {}
  IN  [q \in (series \cup stamped) \ {OutDir} |-> SomeFile]

allocVars == << aPath, aOut, aMade >>

saveVars == << sImg, sDest, sLast, sCount >>

batchVars == << bpc, bArgs, bI, results, events, itemLog >>

engineVars == << eLast, eCount >>

concVars == << cPc, cDesired, cGot, cLog >>

configVars == << config, default_config, heap, cfgFile, cfgLast, cfgCount >>

historyVars == << history, max_items, hFile, hNext, hEvicted, hLast, hCount >>

guiVars == << selected_images, is_compressing, gPc, gImages, gResults, gI, gLen, gCount >>

\* the state of the utilities and of the GUI
sideVars == << concVars, configVars, historyVars, guiVars >>

vars == << fs, dirs, clock, allocVars, saveVars, batchVars, engineVars, sideVars >>

ConcIdle == cPc = None /\ cDesired = None /\ cGot = None /\ cLog = << >>

ConfigIdle ==
  /\ config = None /\ default_config = None /\ heap = None
  /\ cfgFile = None /\ cfgLast = NoCall /\ cfgCount = 0

HistoryIdle ==
  /\ history = << >> /\ max_items = 0 /\ hFile = None /\ hNext = 0
  /\ hEvicted = {} /\ hLast = NoCall /\ hCount = 0

GuiIdle ==
  /\ selected_images = << >> /\ is_compressing = FALSE /\ gPc = "idle"
  /\ gImages = << >> /\ gResults = << >> /\ gI = 0 /\ gLen = 0 /\ gCount = 0

SideIdle == ConcIdle /\ ConfigIdle /\ HistoryIdle /\ GuiIdle

EngineIdle == eLast = NoCall /\ eCount = 0

BatchIdle ==
  /\ bpc = "idle" /\ bArgs = None /\ bI = 0
  /\ results = << >> /\ events = << >> /\ itemLog = << >>

SaveIdle == sImg = None /\ sDest = None /\ sLast = NoCall /\ sCount = 0

AllocInit ==
  /\ aPath \in AllocPaths
  /\ clock \in Timestamps
  /\ dirs = {CwdDir, OutDir}
  /\ \E k \in {0, 1, 2, 3, MaxPrefill - 2, MaxPrefill - 1, MaxPrefill},
          gap \in {-1, 0, 1, 2}, stamps \in BOOLEAN :
       fs = Prefilled(aPath, k, gap, stamps)
  /\ aOut = NoCall
  /\ aMade = 0
  /\ SaveIdle
  /\ BatchIdle
  /\ EngineIdle
  /\ SideIdle

\* one call of generate_unique_filename(aPath)
AllocCall ==
  /\ ~aOut.called
  /\ aOut' = [called |-> TRUE, run |-> UniqueRun(DOMAIN fs, dirs, aPath, clock),
              before |-> fs]
  /\ UNCHANGED << fs, dirs, aPath, clock, aMade, saveVars, batchVars, engineVars, sideVars >>

\* the caller writes a file at the path it was given, as every save does
AllocCreate ==
  /\ aOut.called
  /\ aMade < MaxAllocs
  /\ fs' = [q \in DOMAIN fs \cup {aOut.run.path} |->
              IF q = aOut.run.path THEN [kind |-> "file", bytes |-> 2] ELSE fs[q]]
  /\ aOut' = NoCall
  /\ aMade' = aMade + 1
  /\ UNCHANGED << dirs, aPath, clock, saveVars, batchVars, engineVars, sideVars >>

\* ------------------------------------------------------- FormatHandler

Ext_jpg == << ".", "j", "p", "g" >>

Ext_jpeg == << ".", "j", "p", "e", "g" >>

Ext_png == << ".", "p", "n", "g" >>

Ext_gif == << ".", "g", "i", "f" >>

Ext_bmp == << ".", "b", "m", "p" >>

Ext_tiff == << ".", "t", "i", "f", "f" >>

Ext_tif == << ".", "t", "i", "f" >>

Ext_webp == << ".", "w", "e", "b", "p" >>

Ext_ico == << ".", "i", "c", "o" >>

Ext_ppm == << ".", "p", "p", "m" >>

Ext_pgm == << ".", "p", "g", "m" >>

Ext_pbm == << ".", "p", "b", "m" >>

Ext_avif == << ".", "a", "v", "i", "f" >>

Ext_heic == << ".", "h", "e", "i", "c" >>

Ext_heif == << ".", "h", "e", "i", "f" >>

Ext_svg == << ".", "s", "v", "g" >>

Ext_dds == << ".", "d", "d", "s" >>

Ext_tga == << ".", "t", "g", "a" >>

Ext_eps == << ".", "e", "p", "s" >>

Ext_im == << ".", "i", "m" >>

Ext_pdf == << ".", "p", "d", "f" >>

Ext_psd == << ".", "p", "s", "d" >>

Ext_icns == << ".", "i", "c", "n", "s" >>

Ext_fits == << ".", "f", "i", "t", "s" >>

Ext_msp == << ".", "m", "s", "p" >>

Ext_pcx == << ".", "p", "c", "x" >>

Ext_sgi == << ".", "s", "g", "i" >>

Ext_spider == << ".", "s", "p", "i", "d", "e", "r" >>

Ext_xbm == << ".", "x", "b", "m" >>

Ext_xpm == << ".", "x", "p", "m" >>

\* FormatHandler.SUPPORTED_FORMATS
SUPPORTED_FORMATS ==
  { Ext_jpg, Ext_jpeg, Ext_png, Ext_gif, Ext_bmp, Ext_tiff, Ext_tif, Ext_webp,
    Ext_ico, Ext_ppm, Ext_pgm, Ext_pbm,
    Ext_avif, Ext_heic, Ext_heif,
    Ext_svg, Ext_dds, Ext_tga, Ext_eps, Ext_im,
    Ext_pdf, Ext_psd, Ext_icns, Ext_fits, Ext_msp,
    Ext_pcx, Ext_sgi, Ext_spider, Ext_xbm, Ext_xpm }

\* the list of the last elif without its last entry
LegacyExtsShort ==
  { Ext_psd, Ext_icns, Ext_fits, Ext_msp, Ext_sgi, Ext_spider, Ext_xpm, Ext_dds }

\* the extensions of the last elif of save_image_universal: readable, never written
LegacyExts ==
  { Ext_psd, Ext_icns, Ext_fits, Ext_msp, Ext_sgi, Ext_spider, Ext_xpm, Ext_dds, Ext_im }

\* the colour modes an opened image can have; CMYK stands for the modes outside
\* the six of the data model
Modes == {"RGB", "RGBA", "L", "LA", "P", "1", "CMYK"}

\* what an encoder invocation meets at run time: it works, the codec or backend
\* is not installed, or it fails for another reason (I/O, corrupt data, crash)
EncoderStates == {"ok", "unavailable", "error"}

\* the modes Pillow's JPEG and PNG writers take; the other writers' refusals
\* are covered by the run-time outcome "error"
PILAccepts(format, mode) ==
  CASE format = "JPEG" -> mode \in {"1", "L", "RGB", "CMYK"}
    [] format = "PNG"  -> mode \in {"1", "L", "LA", "P", "RGB", "RGBA"}
    [] OTHER -> TRUE

\* the exception text of a write to `path`, None when the write goes through:
\* the target's directory must exist and the target must not be a directory
WriteError(ds, path) ==
  IF path \in ds THEN "Is a directory"
  ELSE IF dirname(path) \notin ds THEN "No such file or directory"
  ELSE None

\* the exception text of img.save(path, format) for an image of `mode`
SaveError(ds, format, mode, path, enc) ==
  IF enc = "unavailable" THEN "encoder not available"
  ELSE IF ~PILAccepts(format, mode) THEN "cannot write mode"
  ELSE IF WriteError(ds, path) # None THEN WriteError(ds, path)
  ELSE IF enc = "error" THEN "encoder error"
  ELSE None

\* the file img.save leaves at a path
Written(format, img) == [kind |-> "image", format |-> format, mode |-> img.mode,
                         size |-> img.size, bytes |-> img.bytes]

\* the disk after a file is written at `path`: created, or replaced when it is there
PutFile(disk, path, content) ==
  [q \in DOMAIN disk \cup {path} |-> IF q = path THEN content ELSE disk[q]]

\* one write a call made: the path, and whether a file was there before
WriteNote(disk, path) == [path |-> path, existed |-> path \in DOMAIN disk]

\* what a save hands back besides its result dict: the disk after it, the
\* allocations it asked for and the writes it made, in order
Outcome(ret, disk, allocs, writes, handed) ==
  [ret |-> ret, fs |-> disk, allocs |-> allocs, writes |-> writes, handed |-> handed]

\* an except clause whose dict leaves the error text out
FailureWithoutError(error, message) == [success |-> FALSE, message |-> message]

\* the except clauses: {"success": False, "error": str(e), "message": ...}
Failure(error, message) == [success |-> FALSE, error |-> error, message |-> message]

\* one allocation a call asked for: the desired path, the path returned, and
\* whether a file was at the returned path when it was returned
Allocated(disk, desired, got) ==
  [desired |-> desired, path |-> got, existed |-> got \in DOMAIN disk]

\* the call generate_unique_filename(desired) made on this disk, as a note
AllocNote(disk, ds, desired, ts) ==
  Allocated(disk, desired, generate_unique_filename(DOMAIN disk, ds, desired, ts))

\* save_as_pdf from img.save(temp_buffer) on, unique_path being alloc.path
pdf_draw(disk, ds, img, enc, alloc) ==
  LET unique_path == alloc.path
      flat == IF img.mode = "RGBA" THEN [img EXCEPT !.mode = "RGB"] ELSE img
      handed == << [format |-> "JPEG", mode |-> flat.mode, size |-> flat.size] >>
      err == IF ~PILAccepts("JPEG", flat.mode) THEN "cannot write mode"
             ELSE IF enc = "error" THEN "reportlab error"
             ELSE WriteError(ds, unique_path)
  IN  IF err # None
      THEN Outcome(Failure(err, "Error creando PDF"), disk, << alloc >>, << >>, handed)
      ELSE Outcome([success |-> TRUE, output_path |-> unique_path,
                    message |-> "Guardado como PDF"],
                   PutFile(disk, unique_path, Written("PDF", flat)),
                   << alloc >>, << WriteNote(disk, unique_path) >>, handed)

\* FormatHandler.save_as_pdf: ReportLab draws the JPEG-encoded image on one page
save_as_pdf(disk, ds, img, output_path, quality, enc, ts) ==
  IF enc = "unavailable"
  THEN Outcome(Failure("No module named reportlab", "Error creando PDF"),
               disk, << >>, << >>, << >>)
  ELSE pdf_draw(disk, ds, img, enc, AllocNote(disk, ds, output_path, ts))

\* save_as_svg and save_as_eps from img.save(temp_buffer) on, unique_path
\* being alloc.path
wand_convert(disk, ds, img, enc, format, done, failed, alloc) ==
  LET unique_path == alloc.path
      handed == << [format |-> "PNG", mode |-> img.mode, size |-> img.size] >>
      err == IF ~PILAccepts("PNG", img.mode) THEN "cannot write mode"
             ELSE IF enc = "error" THEN "wand error"
             ELSE WriteError(ds, unique_path)
  IN  IF err # None
      THEN Outcome(Failure(err, failed), disk, << alloc >>, << >>, handed)
      ELSE Outcome([success |-> TRUE, output_path |-> unique_path, message |-> done],
                   PutFile(disk, unique_path, Written(format, img)),
                   << alloc >>, << WriteNote(disk, unique_path) >>, handed)

\* the same body with a PNG written beside the destination when Wand is
\* missing or fails (the raster fallback these formats do not have)
save_with_wand_or_png(disk, ds, img, output_path, enc, ts, format, done, failed) ==
  IF enc = "ok"
  THEN wand_convert(disk, ds, img, enc, format, done, failed,
                    AllocNote(disk, ds, output_path, ts))
  ELSE CHOOSE out \in
         { IF PILAccepts("PNG", img.mode) /\ WriteError(ds, png.path) = None
           THEN Outcome([success |-> TRUE, fallback |-> TRUE, output_path |-> png.path,
                         message |-> "Convertido a PNG."],
                        PutFile(disk, png.path, Written("PNG", img)),
                        << png >>, << WriteNote(disk, png.path) >>, << >>)
           ELSE Outcome(Failure("wand error", failed), disk, << png >>, << >>, << >>)
           : png \in {AllocNote(disk, ds, splitext(output_path)[1] \o Ext_png, ts)} } : TRUE

\* the body shared by save_as_svg and save_as_eps: Wand converts the
\* PNG-encoded image to `format`
save_with_wand(disk, ds, img, output_path, enc, ts, format, done, failed) ==
  IF enc = "unavailable"
  THEN Outcome(Failure("No module named wand", failed), disk, << >>, << >>, << >>)
  ELSE wand_convert(disk, ds, img, enc, format, done, failed,
                    AllocNote(disk, ds, output_path, ts))

\* FormatHandler.save_as_svg
save_as_svg(disk, ds, img, output_path, enc, ts) ==
  save_with_wand(disk, ds, img, output_path, enc, ts, "SVG",
                 "Guardado como SVG", "Error creando SVG")

\* FormatHandler.save_as_eps
save_as_eps(disk, ds, img, output_path, enc, ts) ==
  save_with_wand(disk, ds, img, output_path, enc, ts, "EPS",
                 "Guardado como EPS", "Error creando EPS")

\* the same table with an unrecognised extension treated as PNG (the silent
\* fallback the docstring of save_image_universal rules out)
NativeFormatOrPng(ext) ==
  CASE ext \in {Ext_jpg, Ext_jpeg} -> "JPEG"
    [] ext = Ext_png -> "PNG"
    [] ext = Ext_webp -> "WEBP"
    [] ext = Ext_gif -> "GIF"
    [] ext \in {Ext_tiff, Ext_tif} -> "TIFF"
    [] ext = Ext_bmp -> "BMP"
    [] ext = Ext_ico -> "ICO"
    [] ext \in {Ext_ppm, Ext_pgm, Ext_pbm} -> "PPM"
    [] ext = Ext_tga -> "TGA"
    [] ext = Ext_pcx -> "PCX"
    [] ext = Ext_xbm -> "XBM"
    [] ext = Ext_avif -> "AVIF"
    [] ext \in {Ext_heic, Ext_heif} -> "HEIF"
    [] OTHER -> "PNG"

\* the format name each branch of the native chain hands to img.save (the
\* .ppm/.pgm/.pbm branch names none: Pillow takes it from the extension)
NativeFormat(ext) ==
  CASE ext \in {Ext_jpg, Ext_jpeg} -> "JPEG"
    [] ext = Ext_png -> "PNG"
    [] ext = Ext_webp -> "WEBP"
    [] ext = Ext_gif -> "GIF"
    [] ext \in {Ext_tiff, Ext_tif} -> "TIFF"
    [] ext = Ext_bmp -> "BMP"
    [] ext = Ext_ico -> "ICO"
    [] ext \in {Ext_ppm, Ext_pgm, Ext_pbm} -> "PPM"
    [] ext = Ext_tga -> "TGA"
    [] ext = Ext_pcx -> "PCX"
    [] ext = Ext_xbm -> "XBM"
    [] ext = Ext_avif -> "AVIF"
    [] ext \in {Ext_heic, Ext_heif} -> "HEIF"
    [] OTHER -> None

\* the conversions with the JPEG branch converting only the modes its elif
\* names, the image with alpha or a palette going to the encoder as it is
NormalModeKeepAlpha(ext, mode) ==
  CASE ext \in {Ext_jpg, Ext_jpeg} ->
         IF mode \in {"RGBA", "LA", "P"} THEN mode
         ELSE IF mode # "RGB" THEN "RGB" ELSE mode
    [] OTHER -> mode

\* the colour mode after the conversions of each branch; in the JPEG branch
\* RGBA, LA and P are pasted on a new white RGB background, which becomes the
\* image, and every other mode but RGB is converted to RGB
NormalMode(ext, mode) ==
  CASE ext \in {Ext_jpg, Ext_jpeg} ->
         IF mode \in {"RGBA", "LA", "P"} THEN "RGB"
         ELSE IF mode # "RGB" THEN "RGB" ELSE mode
    [] ext = Ext_png -> IF mode \notin {"RGBA", "RGB", "L"} THEN "RGBA" ELSE mode
    [] ext = Ext_gif -> "P"
    [] ext = Ext_bmp -> IF mode \notin {"RGB", "L"} THEN "RGB" ELSE mode
    [] ext = Ext_pgm -> "L"
    [] ext = Ext_pbm -> "1"
    [] ext = Ext_ppm -> "RGB"
    [] ext = Ext_tga -> IF mode \notin {"RGB", "RGBA"} THEN "RGBA" ELSE mode
    [] ext = Ext_pcx -> IF mode \notin {"RGB", "L"} THEN "RGB" ELSE mode
    [] ext = Ext_xbm -> "1"
    [] OTHER -> mode

\* unique_path.replace(ext, ".png")
PngPathOf(unique_path, ext) == Replace(unique_path, ext, Ext_png)

\* the dict of the .avif and .heic/.heif except blocks
BestEffortFallback(png_path, ext, message) ==
  [success |-> TRUE, fallback |-> TRUE, output_path |-> png_path, message |-> message]

\* the dict of the legacy branch
LegacyFallback(png_path, ext) ==
  [success |-> TRUE, fallback |-> TRUE, original_format |-> ext,
   final_format |-> Ext_png, output_path |-> png_path,
   message |-> << "no soportado para escritura. Convertido a PNG.", UpperStr(ext) >>]

\* the outer except clause of save_image_universal
SaveFailure(error) == Failure(error, << "Error", error >>)

\* the .avif and .heic/.heif branches: the encoder is tried at first.path and,
\* when it raises, a PNG is saved at the path allocated for png
best_effort_save(disk, ds, img, enc, ext, first, png) ==
  LET unique_path == first.path
      png_path == png.path
      format == NativeFormat(ext)
      tried == << [format |-> format, mode |-> img.mode, size |-> img.size] >>
      err == SaveError(ds, format, img.mode, unique_path, enc)
      again == Append(tried, [format |-> "PNG", mode |-> img.mode, size |-> img.size])
      \* the fallback save meets the disk and Pillow's PNG writer
      err2 == SaveError(ds, "PNG", img.mode, png_path, "ok")
  IN  IF err = None
      THEN Outcome([success |-> TRUE, output_path |-> unique_path,
                    message |-> << "Guardado como", UpperStr(ext) >>],
                   PutFile(disk, unique_path, Written(format, img)),
                   << first >>, << WriteNote(disk, unique_path) >>, tried)
      ELSE IF err2 # None
      THEN Outcome(SaveFailure(err2), disk, << first, png >>, << >>, again)
      ELSE Outcome(BestEffortFallback(png_path, ext,
                      IF ext = Ext_avif THEN "AVIF no disponible. Convertido a PNG."
                      ELSE "HEIC/HEIF no disponible. Convertido a PNG."),
                   PutFile(disk, png_path, Written("PNG", img)),
                   << first, png >>, << WriteNote(disk, png_path) >>, again)

\* the legacy branch: a PNG is saved at the path allocated for png
legacy_save(disk, ds, img, enc, ext, first, png) ==
  LET png_path == png.path
      conv == [img EXCEPT !.mode = IF img.mode \notin {"RGBA", "RGB", "L"}
                                   THEN "RGBA" ELSE img.mode]
      handed == << [format |-> "PNG", mode |-> conv.mode, size |-> conv.size] >>
      err == SaveError(ds, "PNG", conv.mode, png_path, IF enc = "error" THEN enc ELSE "ok")
  IN  IF err # None
      THEN Outcome(SaveFailure(err), disk, << first, png >>, << >>, handed)
      ELSE Outcome(LegacyFallback(png_path, ext),
                   PutFile(disk, png_path, Written("PNG", conv)),
                   << first, png >>, << WriteNote(disk, png_path) >>, handed)

\* a path or extension as the text an f-string puts in a message
RECURSIVE Text(_)
Text(chars) == IF chars = << >> THEN "" ELSE Head(chars) \o Text(Tail(chars))

\* f"Formato {ext} no soportado"
UnknownFormatError(ext) == "Formato " \o Text(ext) \o " no soportado"

\* the branches Pillow writes natively, and the final else of the chain
native_save(disk, ds, img, enc, ext, first) ==
  LET unique_path == first.path
      format == NativeFormat(ext)
      conv == [img EXCEPT !.mode = NormalMode(ext, img.mode)]
      handed == << [format |-> format, mode |-> conv.mode, size |-> conv.size] >>
      err == SaveError(ds, format, conv.mode, unique_path, enc)
  IN  IF format = None
      THEN Outcome([success |-> FALSE, error |-> UnknownFormatError(ext),
                    message |-> << "Formato no reconocido", UpperStr(ext) >>],
                   disk, << first >>, << >>, << >>)
      ELSE IF err # None
      THEN Outcome(SaveFailure(err), disk, << first >>, << >>, handed)
      ELSE Outcome([success |-> TRUE, output_path |-> unique_path,
                    message |-> << "Guardado como", UpperStr(ext) >>],
                   PutFile(disk, unique_path, Written(format, conv)),
                   << first >>, << WriteNote(disk, unique_path) >>, handed)

\* the if/elif chain on ext, unique_path being first.path
native_chain(disk, ds, img, enc, ts, ext, first) ==
  IF ext \in {Ext_avif, Ext_heic, Ext_heif}
  THEN best_effort_save(disk, ds, img, enc, ext, first,
                        AllocNote(disk, ds, PngPathOf(first.path, ext), ts))
  ELSE IF ext \in LegacyExts
  THEN legacy_save(disk, ds, img, enc, ext, first,
                   AllocNote(disk, ds, PngPathOf(first.path, ext), ts))
  ELSE native_save(disk, ds, img, enc, ext, first)

\* the else branch of save_image_universal: unique_path is allocated, then
\* the chain runs
save_native(disk, ds, img, output_path, quality, enc, ts, ext) ==
  native_chain(disk, ds, img, enc, ts, ext, AllocNote(disk, ds, output_path, ts))

\* the dispatch of save_image_universal on ext
save_by_ext(disk, ds, img, output_path, quality, enc, ts, ext) ==
  IF ext = Ext_pdf THEN save_as_pdf(disk, ds, img, output_path, quality, enc, ts)
  ELSE IF ext = Ext_svg THEN save_as_svg(disk, ds, img, output_path, enc, ts)
  ELSE IF ext = Ext_eps THEN save_as_eps(disk, ds, img, output_path, enc, ts)
  ELSE save_native(disk, ds, img, output_path, quality, enc, ts, ext)

\* FormatHandler.save_image_universal(img, output_path, quality), with the
\* run-time state of the encoder it reaches and the clock's reading
save_image_universal(disk, ds, img, output_path, quality, enc, ts) ==
  save_by_ext(disk, ds, img, output_path, quality, enc, ts,
              LowerStr(splitext(output_path)[2]))

AllocNext == AllocCall \/ AllocCreate

SpecAlloc == AllocInit /\ [][AllocNext]_vars

\* C4: generate_unique_filename(p) returns p unchanged when p does not exist;
\* otherwise, when one of <stem>_copy1<ext> .. <stem>_copy100<ext> is free, it
\* returns the one with the smallest N, in p's directory: a_copy1.png when
\* a.png exists, a_copy2.png when a.png and a_copy1.png exist.
C4_SmallestFreeCopy ==
  aOut.called =>
    LET E(q) == q # << >> /\ (q \in DOMAIN fs \/ q \in dirs)
        stem == splitext(basename(aPath))[1]
        ext == splitext(basename(aPath))[2]
        Copy(N) == join(dirname(aPath), stem \o << "_", "c", "o", "p", "y" >> \o IntToStr(N) \o ext)
        got == aOut.run.path
    IN  /\ ~E(aPath) => got = aPath
        /\ (E(aPath) /\ \E N \in 1..100 : ~E(Copy(N))) =>
             \E N \in 1..100 : /\ got = Copy(N)
                               /\ ~E(got)
                               /\ \A M \in 1..(N - 1) : E(Copy(M))
                               /\ dirname(got) = dirname(aPath)
        /\ (aPath = << "a", ".", "p", "n", "g" >> /\ << "a", ".", "p", "n", "g" >> \in DOMAIN fs
              /\ << "a", "_", "c", "o", "p", "y", "1", ".", "p", "n", "g" >> \notin DOMAIN fs) => got = << "a", "_", "c", "o", "p", "y", "1", ".", "p", "n", "g" >>
        /\ (aPath = << "a", ".", "p", "n", "g" >> /\ {<< "a", ".", "p", "n", "g" >>, << "a", "_", "c", "o", "p", "y", "1", ".", "p", "n", "g" >>} \subseteq DOMAIN fs
              /\ << "a", "_", "c", "o", "p", "y", "2", ".", "p", "n", "g" >> \notin DOMAIN fs) => got = << "a", "_", "c", "o", "p", "y", "2", ".", "p", "n", "g" >>
        /\ (aPath = << "o", "/", "b", ".", "t", "a", "r", ".", "g", "z" >> /\ aPath \in DOMAIN fs
              /\ << "o", "/", "b", ".", "t", "a", "r", "_", "c", "o", "p", "y", "1", ".", "g", "z" >> \notin DOMAIN fs) => got = << "o", "/", "b", ".", "t", "a", "r", "_", "c", "o", "p", "y", "1", ".", "g", "z" >>

\* a.png and a_copy1.png exist and the call returned a_copy2.png
C4_Witness ==
  /\ aOut.called
  /\ aPath = << "a", ".", "p", "n", "g" >>
  /\ {<< "a", ".", "p", "n", "g" >>, << "a", "_", "c", "o", "p", "y", "1", ".", "p", "n", "g" >>} \subseteq DOMAIN fs
  /\ aOut.run.path = << "a", "_", "c", "o", "p", "y", "2", ".", "p", "n", "g" >>

MaxSaves == 2

\* the default of the quality parameter
DefaultQuality == 85

PsdDir == << "d", ".", "p", "s", "d" >>

\* destinations: one for every extension of SUPPORTED_FORMATS, unknown
\* and missing extensions, upper-case extensions, the extension text inside a
\* directory name and inside the stem, and a directory that does not exist
SavePaths ==
  { << "a", ".", "p", "n", "g" >>, << "a", ".", "j", "p", "g" >>, << "a", ".", "g", "i", "f" >>,
    << "a", ".", "a", "v", "i", "f" >>, << "o", "/", "a", ".", "h", "e", "i", "c" >>, << "p", ".", "H", "E", "I", "C" >>,
    << "a", ".", "p", "s", "d" >>, << "s", ".", "P", "S", "D" >>, << "a", ".", "d", "d", "s" >>, << "d", ".", "p", "s", "d", "/", "a", ".", "p", "s", "d" >>, << "b", ".", "p", "s", "d", ".", "p", "s", "d" >>,
    << "a", ".", "x", "y", "z" >>, << "a" >>,
    << "a", ".", "p", "d", "f" >>, << "a", ".", "P", "D", "F" >>, << "a", ".", "s", "v", "g" >>, << "a", ".", "e", "p", "s" >>,
    << "a", ".", "j", "p", "e", "g" >>, << "a", ".", "b", "m", "p" >>, << "a", ".", "t", "i", "f", "f" >>, << "a", ".", "t", "i", "f" >>,
    << "a", ".", "w", "e", "b", "p" >>, << "a", ".", "i", "c", "o" >>, << "a", ".", "p", "p", "m" >>, << "a", ".", "p", "g", "m" >>,
    << "a", ".", "p", "b", "m" >>, << "a", ".", "h", "e", "i", "f" >>, << "a", ".", "t", "g", "a" >>, << "a", ".", "i", "m" >>,
    << "a", ".", "i", "c", "n", "s" >>, << "a", ".", "f", "i", "t", "s" >>, << "a", ".", "m", "s", "p" >>, << "a", ".", "p", "c", "x" >>,
    << "a", ".", "s", "g", "i" >>, << "a", ".", "s", "p", "i", "d", "e", "r" >>, << "a", ".", "x", "b", "m" >>, << "a", ".", "x", "p", "m" >>,
    << "A", ".", "J", "P", "G" >>, << "a", ".", "j", "p", "2" >>, << "a", ".", "t", "x", "t" >>, << "a", ".", "j", "p", "e" >>,
    << "x", "/", "a", ".", "p", "n", "g" >>, << "x", "/", "a", ".", "p", "s", "d" >> }

\* the image handles tried: every mode, one size, one encoded byte size
Images == [mode : Modes, size : {<< 4, 3 >>}, bytes : {9}]

\* PNG files a disk may already hold beside the destination
PngNeighbours == { << "a", ".", "p", "n", "g" >>, << "o", "/", "a", ".", "p", "n", "g" >>, << "p", ".", "p", "n", "g" >> }

\* the destinations whose whole _copy series an initial disk may hold
FullPaths == { << "a", ".", "p", "n", "g" >>, << "a", ".", "p", "s", "d" >>,
               << "a", ".", "p", "d", "f" >>, << "a", ".", "a", "v", "i", "f" >> }

PsdDir2 == << "e", ".", "p", "s", "d" >>

PngDir2 == << "e", ".", "p", "n", "g" >>

\* the directories that exist: the working directory, o, d.psd, e.psd and e.png
\* (there is no d.png and no x)
SaveDirs == {CwdDir, OutDir, PsdDir, PsdDir2, PngDir2}

AllocIdle == aPath = None /\ aOut = NoCall /\ aMade = 0

SaveInit ==
  /\ sImg \in Images
  /\ sDest \in SavePaths
  /\ clock \in Timestamps
  /\ dirs = SaveDirs
  /\ \E k \in {0, 1, MaxPrefill}, neighbours \in BOOLEAN :
       /\ k > 1 => sDest \in FullPaths /\ sImg.mode \in {"RGBA", "CMYK"}
       /\ fs = [q \in DOMAIN Prefilled(sDest, k, -1, k > 1)
                   \cup (IF neighbours THEN PngNeighbours ELSE {}) |-> SomeFile]
  /\ sLast = NoCall
  /\ sCount = 0
  /\ AllocIdle
  /\ BatchIdle
  /\ EngineIdle
  /\ SideIdle

\* what the call leaves behind: the disk, and the record of the call
SaveReturn(enc, out) ==
  /\ fs' = out.fs
  /\ sLast' = [called |-> TRUE, dest |-> sDest, img |-> sImg, enc |-> enc, ret |-> out.ret,
               allocs |-> out.allocs, writes |-> out.writes,
               handed |-> out.handed, before |-> fs]

\* one call save_image_universal(sImg, sDest), returning before the next
Save ==
  /\ sCount < MaxSaves
  /\ \E enc \in EncoderStates :
       SaveReturn(enc, save_image_universal(fs, dirs, sImg, sDest, DefaultQuality, enc, clock))
  /\ sCount' = sCount + 1
  /\ UNCHANGED << dirs, clock, sImg, sDest, allocVars, batchVars, engineVars, sideVars >>

SaveNext == Save

SpecSave == SaveInit /\ [][SaveNext]_vars

\* the lower-cased extension of the destination of the last call
LastExt == LowerStr(splitext(sLast.dest)[2])

\* the files the last call created or replaced
LastTouched ==
  {q \in DOMAIN fs : q \notin DOMAIN sLast.before \/ fs[q] # sLast.before[q]}

\* C3: the core never overwrites and never deletes a file: after a call, every
\* file that was there before it is still there with the same content, and
\* every path the call wrote was free when the call allocated it.
C3_NeverOverwrites ==
  sLast.called =>
    /\ \A q \in DOMAIN sLast.before : q \in DOMAIN fs /\ fs[q] = sLast.before[q]
    /\ \A i \in 1..Len(sLast.writes) : ~sLast.writes[i].existed

\* C6: for a destination whose lower-cased extension is none of the handled
\* ones (.xyz, no extension) save_image_universal returns a failure with an
\* error text, writes no file, and reports no fallback.
C6_UnknownExtensionFails ==
  (sLast.called /\ LastExt \notin SUPPORTED_FORMATS) =>
    /\ sLast.ret.success = FALSE
    /\ "error" \in DOMAIN sLast.ret
    /\ "fallback" \notin DOMAIN sLast.ret
    /\ "output_path" \notin DOMAIN sLast.ret
    /\ sLast.writes = << >>
    /\ fs = sLast.before

\* a.xyz was refused
C6_Witness ==
  /\ sLast.called
  /\ sLast.dest = << "a", ".", "x", "y", "z" >>
  /\ sLast.ret.success = FALSE
  /\ fs = sLast.before

\* C7: for a destination with a write-unsupported legacy extension in a
\* directory that exists, and no I/O or encoder fault, save_image_universal
\* always returns success with fallback = true and final_format = ".png".
C7_LegacyAlwaysFallsBack ==
  (/\ sLast.called
   /\ LastExt \in { << ".", "p", "s", "d" >>, << ".", "i", "c", "n", "s" >>, << ".", "f", "i", "t", "s" >>, << ".", "m", "s", "p" >>, << ".", "s", "g", "i" >>, << ".", "s", "p", "i", "d", "e", "r" >>,
                    << ".", "x", "p", "m" >>, << ".", "d", "d", "s" >>, << ".", "i", "m" >> }
   /\ dirname(sLast.dest) \in dirs
   /\ sLast.enc # "error") =>
    /\ sLast.ret.success = TRUE
    /\ "fallback" \in DOMAIN sLast.ret /\ sLast.ret.fallback = TRUE
    /\ "final_format" \in DOMAIN sLast.ret /\ sLast.ret.final_format = << ".", "p", "n", "g" >>

\* C8: every success-with-fallback result of save_image_universal records the
\* format that was asked for and the format that was written.
C8_FallbackRecordsFormats ==
  (/\ sLast.called
   /\ sLast.ret.success = TRUE
   /\ "fallback" \in DOMAIN sLast.ret
   /\ sLast.ret.fallback = TRUE) =>
    /\ "original_format" \in DOMAIN sLast.ret
    /\ "final_format" \in DOMAIN sLast.ret
    /\ sLast.ret.original_format = LastExt
    /\ sLast.ret.final_format = << ".", "p", "n", "g" >>

\* C9: the output path of every fallback result ends in .png and is the
\* requested path with only its extension replaced, but for the suffixes the
\* two allocations (of the requested path, then of the .png path) may add to
\* the stem: nothing, _copyN, or past _copy100 a time stamp.
C9_FallbackPathIsPng ==
  (/\ sLast.called
   /\ sLast.ret.success = TRUE
   /\ "fallback" \in DOMAIN sLast.ret
   /\ sLast.ret.fallback = TRUE) =>
    LET got == sLast.ret.output_path
        want == splitext(sLast.dest)[1]
        stem == splitext(got)[1]
        added == {<< >>, << "_" >> \o IntToStr(clock)}
                   \cup {<< "_", "c", "o", "p", "y" >> \o IntToStr(N) : N \in 1..100}
    IN  /\ splitext(got)[2] = << ".", "p", "n", "g" >>
        /\ \E first \in added, second \in added : stem = want \o first \o second

\* C10: for a .pdf, .svg or .eps destination whose backend is absent or fails,
\* the result is a failure carrying the error text; no call for one of these
\* extensions reports a fallback or leaves a file that is not of that format.
C10_SpecialisedNeverFallsBack ==
  (sLast.called /\ LastExt \in { << ".", "p", "d", "f" >>, << ".", "s", "v", "g" >>, << ".", "e", "p", "s" >> }) =>
    /\ sLast.enc # "ok" =>
         /\ sLast.ret.success = FALSE
         /\ "error" \in DOMAIN sLast.ret
         /\ fs = sLast.before
    /\ "fallback" \notin DOMAIN sLast.ret
    /\ \A q \in LastTouched :
         fs[q].format = (CASE LastExt = << ".", "p", "d", "f" >> -> "PDF"
                           [] LastExt = << ".", "s", "v", "g" >> -> "SVG"
                           [] LastExt = << ".", "e", "p", "s" >> -> "EPS")
    /\ \A i \in 1..Len(sLast.writes) :
         LowerStr(splitext(sLast.writes[i].path)[2]) = LastExt

\* a.svg was asked for with Wand missing, and the call failed leaving the disk
\* as it was
C10_Witness ==
  /\ sLast.called
  /\ sLast.dest = << "a", ".", "s", "v", "g" >>
  /\ sLast.enc = "unavailable"
  /\ sLast.ret.success = FALSE
  /\ "error" \in DOMAIN sLast.ret
  /\ fs = sLast.before

\* --------------------------------------------------- CompressionEngine

\* the kinds of caller-supplied callback: "none" (not given), "ok" (returns),
\* "raises" (raises on every call), "raisesOnDone" (raises only on the
\* "Compresion completada" message)

\* whether a callback of this kind raises when called with this message
CallbackRaises(kind, text) ==
  \/ kind = "raises"
  \/ kind = "raisesOnDone" /\ text = "Compresion completada"

\* individual_progress(msg), the closure handed to compress_image: one call
\* progress_callback(f"{msg} ({i+1}/{total})") when progress_callback is given
IndividualProgress(kind, text, i, total) ==
  IF kind = "none" THEN << >>
  ELSE << [cb |-> "progress", text |-> text, shown |-> i + 1, total |-> total] >>

\* floor and ceiling of a / b for naturals, b > 0
FloorDiv(a, b) == a \div b

CeilDiv(a, b) == IF a % b = 0 THEN a \div b ELSE (a \div b) + 1

Abs(n) == IF n < 0 THEN -n ELSE n

Max(a, b) == IF a >= b THEN a ELSE b

\* Image.thumbnail((x, y)) on a w by h image: unchanged when the box holds the
\* image, else the largest size of the image's aspect ratio inside the box,
\* each side at least 1 (Pillow's round_aspect)
Thumbnail(size, box) ==
  LET w == size[1]
      h == size[2]
      x == box[1]
      y == box[2]
  IN  IF x >= w /\ y >= h THEN size
      ELSE IF x * h >= w * y
      THEN LET lo == FloorDiv(y * w, h)
               hi == CeilDiv(y * w, h)
               pick == IF Abs(w * y - lo * h) <= Abs(w * y - hi * h) THEN lo ELSE hi
           IN  << Max(pick, 1), y >>
      ELSE LET lo == FloorDiv(x * h, w)
               hi == CeilDiv(x * h, w)
               pick == IF lo = 0 THEN lo
                       ELSE IF Abs(w * lo - x * h) * hi <= Abs(w * hi - x * h) * lo
                       THEN lo ELSE hi
           IN  << x, Max(pick, 1) >>

\* the resize step without the aspect ratio: the requested size as it is
ResizedExactly(size, new_size, maintain_aspect) ==
  IF new_size = << >> \/ new_size = << 0, 0 >> THEN size ELSE new_size

\* the resize step of compress_image: new_size is None or a pair
Resized(size, new_size, maintain_aspect) ==
  IF new_size = << >> \/ new_size = << 0, 0 >> THEN size
  ELSE IF maintain_aspect THEN Thumbnail(size, new_size)
  ELSE new_size

\* the exception text of the resize step, None when it goes through: with a
\* zero height Image.thumbnail divides by it, and Image.resize (which thumbnail
\* ends in) refuses a side below 1
ResizeError(size, new_size, maintain_aspect) ==
  IF new_size = << >> \/ new_size = << 0, 0 >> THEN None
  ELSE IF maintain_aspect /\ new_size[2] = 0 THEN "division by zero"
  ELSE IF new_size[1] < 1 \/ new_size[2] < 1 THEN "height and width must be > 0"
  ELSE None

\* what compress_image hands back besides its result dict: the disk after it,
\* the callback calls it made, and the save_image_universal call inside it
Compressed(ret, disk, calls, inner) ==
  [ret |-> ret, fs |-> disk, events |-> calls, inner |-> inner]

\* compressed_size / original_size * 100 (the share kept, not the share saved)
RatioKept(original_size, compressed_size) ==
  [num |-> compressed_size * 100, den |-> IF original_size > 0 THEN original_size ELSE 1]

\* (1 - compressed_size / original_size) * 100 as the fraction num / den,
\* 0 when original_size is 0
Ratio(original_size, compressed_size) ==
  IF original_size > 0
  THEN [num |-> (original_size - compressed_size) * 100, den |-> original_size]
  ELSE [num |-> 0, den |-> 1]

\* the except clause of compress_image
CompressFailure(error) == Failure(error, << "Error", error >>)

\* compress_image after save_image_universal returned `out`: the failure is
\* handed on, or the sizes are measured and the result dict is built
compress_saved(disk, output_path, kind, i, total, enc, file, img, said, out) ==
  LET inner == [called |-> TRUE, dest |-> output_path, img |-> img, enc |-> enc,
                ret |-> out.ret, allocs |-> out.allocs, writes |-> out.writes,
                handed |-> out.handed, before |-> disk]
      ret == out.ret
      done == said \o IndividualProgress(kind, "Compresion completada", i, total)
  IN  IF ~ret.success
      THEN Compressed([success |-> FALSE,
                       error |-> IF "error" \in DOMAIN ret THEN ret.error
                                 ELSE "Error desconocido al guardar",
                       message |-> IF "message" \in DOMAIN ret THEN ret.message
                                   ELSE "Error al guardar"],
                      out.fs, said, inner)
      ELSE IF kind # "none" /\ CallbackRaises(kind, "Compresion completada")
      THEN Compressed(CompressFailure("callback error"), out.fs, done, inner)
      ELSE Compressed(
             [success |-> TRUE,
              original_size |-> file.bytes,
              compressed_size |-> out.fs[ret.output_path].bytes,
              compression_ratio |-> Ratio(file.bytes, out.fs[ret.output_path].bytes),
              original_dimensions |-> file.size,
              final_dimensions |-> img.size,
              format |-> LStrip(UpperStr(splitext(ret.output_path)[2]), "."),
              output_path |-> ret.output_path,
              fallback |-> IF "fallback" \in DOMAIN ret THEN ret.fallback ELSE FALSE,
              message |-> IF "message" \in DOMAIN ret THEN ret.message
                          ELSE << "Comprimido como",
                                  LStrip(UpperStr(splitext(ret.output_path)[2]), ".") >>],
             out.fs, done, inner)

\* compress_image once the image is open and resized: the save, then the rest
compress_opened(disk, ds, output_path, quality, kind, i, total, enc, ts, file, img, said) ==
  compress_saved(disk, output_path, kind, i, total, enc, file, img, said,
                 save_image_universal(disk, ds, img, output_path, quality, enc, ts))

\* compress_image with the save moved before the resize: the image is saved
\* as it was opened, and the resize that follows may still fail
compress_image_save_first(disk, ds, input_path, output_path, quality, new_size, maintain_aspect, kind, i, total, enc, ts, encoded) ==
  IF input_path \notin DOMAIN disk
  THEN Compressed(CompressFailure("No such file or directory"), disk, << >>, NoCall)
  ELSE IF disk[input_path].kind # "image"
  THEN Compressed(CompressFailure("cannot identify image file"), disk, << >>, NoCall)
  ELSE CHOOSE r \in
         { IF ResizeError(disk[input_path].size, new_size, maintain_aspect) # None
           THEN [done EXCEPT !.ret = CompressFailure(
                    ResizeError(disk[input_path].size, new_size, maintain_aspect))]
           ELSE done
           : done \in { compress_opened(disk, ds, output_path, quality, kind, i, total, enc, ts,
                                        disk[input_path],
                                        [mode |-> disk[input_path].mode,
                                         size |-> disk[input_path].size,
                                         bytes |-> encoded],
                                        << >>) } } : TRUE

\* CompressionEngine.compress_image, called with the closure individual_progress
\* of item i of total (kind is the progress callback behind it); `encoded` is
\* the number of bytes the encoder makes of the image
compress_image(disk, ds, input_path, output_path, quality, new_size, maintain_aspect, kind, i, total, enc, ts, encoded) ==
  LET said(text) == IndividualProgress(kind, text, i, total)
      raised(text) == kind # "none" /\ CallbackRaises(kind, text)
      ev1 == said("Cargando imagen...")
      ev2 == ev1 \o said("Procesando imagen...")
      ev3 == ev2 \o said("Guardando imagen...")
  IN
  IF raised("Cargando imagen...")
  THEN Compressed(CompressFailure("callback error"), disk, ev1, NoCall)
  ELSE IF input_path \notin DOMAIN disk
  THEN Compressed(CompressFailure("No such file or directory"), disk, ev1, NoCall)
  ELSE IF disk[input_path].kind # "image"
  THEN Compressed(CompressFailure("cannot identify image file"), disk, ev1, NoCall)
  ELSE IF raised("Procesando imagen...")
  THEN Compressed(CompressFailure("callback error"), disk, ev2, NoCall)
  ELSE IF ResizeError(disk[input_path].size, new_size, maintain_aspect) # None
  THEN Compressed(CompressFailure(ResizeError(disk[input_path].size, new_size, maintain_aspect)),
                  disk, ev2, NoCall)
  ELSE IF raised("Guardando imagen...")
  THEN Compressed(CompressFailure("callback error"), disk, ev3, NoCall)
  ELSE compress_opened(disk, ds, output_path, quality, kind, i, total, enc, ts,
                       disk[input_path],
                       [mode |-> disk[input_path].mode,
                        size |-> Resized(disk[input_path].size, new_size, maintain_aspect),
                        bytes |-> encoded],
                       ev3)

\* results.append, for the result of the loop's item i
AccumulateFirst(list, item) == << item >> \o list

\* results.append(result): the list with the item at its end
Accumulate(list, item) == Append(list, item)

\* a loop that leaves at the first failed item
AfterItemStopOnFailure(i, total, result) == IF result.success THEN i + 1 ELSE total

\* the for loop's step: the index after item i, whatever its result
AfterItem(i, total, result) == i + 1

\* the except clause of the loop body
ErrorResult(error, input_path) ==
  [success |-> FALSE, error |-> error,
   message |-> << "Error procesando", basename(input_path), error >>,
   input_path |-> input_path]

\* the same step with the image callback called for failed items too
batch_item_done_always(disk, args, i, enc, input_path, output_path, announced, comp) ==
  [result |-> comp.ret,
   fs |-> comp.fs,
   events |-> announced \o comp.events \o
              (IF args.image_callback = "none" THEN << >>
               ELSE << [cb |-> "image", item |-> i + 1, input |-> input_path,
                        output |-> IF comp.ret.success THEN comp.ret.output_path ELSE None,
                        result |-> comp.ret] >>),
   log |-> [index |-> i, input |-> input_path, output |-> output_path,
            enc |-> enc, compressed |-> TRUE, comp |-> comp.ret,
            inner |-> comp.inner, before |-> disk]]

\* the loop body of compress_multiple_images after compress_image returned
\* `comp`: the image callback on success, then the result that is appended
batch_item_done(disk, args, i, enc, input_path, output_path, announced, comp) ==
  LET previewed ==
        IF args.image_callback # "none" /\ comp.ret.success
        THEN << [cb |-> "image", item |-> i + 1, input |-> input_path,
                 output |-> comp.ret.output_path, result |-> comp.ret] >>
        ELSE << >>
      log == [index |-> i, input |-> input_path, output |-> output_path,
              enc |-> enc, compressed |-> TRUE, comp |-> comp.ret,
              inner |-> comp.inner, before |-> disk]
  IN  [result |-> IF previewed # << >> /\ CallbackRaises(args.image_callback, "image")
                  THEN ErrorResult("callback error", input_path)
                  ELSE comp.ret,
       fs |-> comp.fs,
       events |-> announced \o comp.events \o previewed,
       log |-> log]

\* the progress of the items done once item i is, (i + 1) / total * 100
ProgressValueAfter(i, total) == [num |-> (i + 1) * 100, den |-> total]

\* progress = (i / total_images) * 100, as the fraction num / den
ProgressValue(i, total) == [num |-> i * 100, den |-> total]

\* the same call with the loop index itself in the text
AnnouncementZeroBased(kind, i, total, base_name) ==
  IF kind = "none" THEN << >>
  ELSE << [cb |-> "progress", text |-> "Procesando", shown |-> i,
           total |-> total, name |-> base_name, value |-> ProgressValue(i, total)] >>

\* progress_callback(f"Procesando {i+1}/{total_images}: {base_name}", progress)
\* when progress_callback is given
Announcement(kind, i, total, base_name) ==
  IF kind = "none" THEN << >>
  ELSE << [cb |-> "progress", text |-> "Procesando", shown |-> i + 1,
           total |-> total, name |-> base_name, value |-> ProgressValue(i, total)] >>

\* the loop body from the progress callback on, the paths being worked out
batch_item_at(disk, ds, args, i, enc, ts, encoded, input_path, base_name, output_path) ==
  LET total == Len(args.image_paths)
      announced == Announcement(args.progress_callback, i, total, base_name)
  IN  IF args.progress_callback # "none"
         /\ CallbackRaises(args.progress_callback, "Procesando")
      THEN [result |-> ErrorResult("callback error", input_path), fs |-> disk,
            events |-> announced,
            log |-> [index |-> i, input |-> input_path, output |-> output_path,
                     enc |-> enc, compressed |-> FALSE, comp |-> NoCall,
                     inner |-> NoCall, before |-> disk]]
      ELSE batch_item_done(disk, args, i, enc, input_path, output_path, announced,
                           compress_image(disk, ds, input_path, output_path, args.quality,
                                          args.new_size, args.maintain_aspect,
                                          args.progress_callback, i, total, enc, ts,
                                          encoded))

\* the output path of an input: os.path.join(output_dir, base_name + output_format)
BatchOutputPath(args, base_name) == join(args.output_dir, base_name \o args.output_format)

\* the loop body once base_name is known
batch_item_named(disk, ds, args, i, enc, ts, encoded, input_path, base_name) ==
  batch_item_at(disk, ds, args, i, enc, ts, encoded, input_path, base_name,
                BatchOutputPath(args, base_name))

\* one iteration of the loop of compress_multiple_images, for item i:
\* [result, fs, events, log]
BatchItemRun(disk, ds, args, i, enc, ts, encoded) ==
  batch_item_named(disk, ds, args, i, enc, ts, encoded, args.image_paths[i + 1],
                   splitext(basename(args.image_paths[i + 1]))[1])

\* how many paths one batch is given
MaxBatch == 2

InDir == << "i" >>

InDir2 == << "j" >>

\* the inputs tried: two images with the same base name in two directories,
\* and a file that is no image
InputPaths == { << "i", "/", "x", ".", "p", "n", "g" >>, << "j", "/", "x", ".", "p", "n", "g" >>, << "i", "/", "b", "a", "d", ".", "p", "n", "g" >> }

\* the output formats tried: native, best-effort, legacy, specialised, unknown
BatchFormats == { << ".", "j", "p", "g" >>, << ".", "h", "e", "i", "c" >>, << ".", "p", "s", "d" >>, << ".", "p", "d", "f" >>, << ".", "x", "y", "z" >> }

\* the callback pairs tried: << progress_callback, image_callback >>
BatchCallbacks ==
  { << "none", "none" >>, << "ok", "ok" >>, << "raises", "ok" >>,
    << "raisesOnDone", "ok" >>, << "ok", "raises" >> }

\* the resize requests tried: << new_size, maintain_aspect >>
BatchSizes == { << << >>, TRUE >>, << << 2, 2 >>, TRUE >>, << << 8, 8 >>, FALSE >> }

\* the lists of at most n paths
PathLists(n) == UNION {[1..k -> InputPaths] : k \in 0..n}

BatchInit ==
  /\ dirs = {CwdDir, OutDir, InDir, InDir2}
  /\ clock = CHOOSE ts \in Timestamps : \A other \in Timestamps : ts <= other
  /\ \E taken \in BOOLEAN :
       fs = [q \in { << "i", "/", "x", ".", "p", "n", "g" >>, << "j", "/", "x", ".", "p", "n", "g" >>, << "i", "/", "b", "a", "d", ".", "p", "n", "g" >> }
                     \cup (IF taken THEN { << "o", "/", "x", ".", "j", "p", "g" >>, << "o", "/", "x", ".", "p", "n", "g" >> } ELSE {}) |->
               CASE q = << "i", "/", "x", ".", "p", "n", "g" >> -> [kind |-> "image", format |-> "PNG",
                                      mode |-> "RGBA", size |-> << 4, 3 >>, bytes |-> 9]
                 [] q = << "j", "/", "x", ".", "p", "n", "g" >> -> [kind |-> "image", format |-> "PNG",
                                      mode |-> "P", size |-> << 2, 5 >>, bytes |-> 0]
                 [] OTHER -> SomeFile]
  /\ BatchIdle
  /\ AllocIdle
  /\ SaveIdle
  /\ EngineIdle
  /\ SideIdle

\* compress_multiple_images is called: results = [], total_images = len(image_paths)
BatchStart ==
  /\ bpc = "idle"
  /\ \E paths \in PathLists(MaxBatch), format \in BatchFormats,
        cbs \in BatchCallbacks, resize \in BatchSizes :
       bArgs' = [image_paths |-> paths, output_dir |-> OutDir,
                 output_format |-> format, quality |-> DefaultQuality,
                 new_size |-> resize[1], maintain_aspect |-> resize[2],
                 progress_callback |-> cbs[1], image_callback |-> cbs[2]]
  /\ bpc' = "loop"
  /\ bI' = 0
  /\ results' = << >>
  /\ events' = << >>
  /\ itemLog' = << >>
  /\ UNCHANGED << fs, dirs, clock, allocVars, saveVars, engineVars, sideVars >>

\* the byte counts an encoder may make of an image: less, and more, than the
\* 9 bytes of the input i/x.png
EncodedSizes == {4, 12}

\* what one iteration leaves behind
BatchItemReturn(run) ==
  /\ fs' = run.fs
  /\ results' = Accumulate(results, run.result)
  /\ events' = events \o run.events
  /\ itemLog' = Append(itemLog, run.log)
  /\ bI' = AfterItem(bI, Len(bArgs.image_paths), run.result)

\* one iteration of the for loop
BatchItem ==
  /\ bpc = "loop"
  /\ bI < Len(bArgs.image_paths)
  /\ \E enc \in EncoderStates, encoded \in EncodedSizes :
       BatchItemReturn(BatchItemRun(fs, dirs, bArgs, bI, enc, clock, encoded))
  /\ UNCHANGED << bpc, bArgs, dirs, clock, allocVars, saveVars, engineVars, sideVars >>

\* after the loop: the final progress call, then return results; an exception
\* of that call leaves the function
BatchFinish ==
  /\ bpc = "loop"
  /\ bI >= Len(bArgs.image_paths)
  /\ events' = IF bArgs.progress_callback = "none" THEN events
               ELSE Append(events, [cb |-> "progress", text |-> "Compresion completada",
                                    value |-> [num |-> 100, den |-> 1]])
  /\ bpc' = IF bArgs.progress_callback # "none"
               /\ CallbackRaises(bArgs.progress_callback, "Compresion completada")
            THEN "raised" ELSE "returned"
  /\ UNCHANGED << fs, dirs, clock, bArgs, bI, results, itemLog, allocVars, saveVars, engineVars, sideVars >>

BatchNext == BatchStart \/ BatchItem \/ BatchFinish

SpecBatch == BatchInit /\ [][BatchNext]_vars

\* ------------------------------------- CompressionEngine, one call at a time

\* the except clause of estimate_compressed_size and of get_image_info
EngineFailure(error) == [success |-> FALSE, error |-> error]

\* an estimate that encodes to a scratch file beside the input instead of a
\* buffer in memory
estimate_by_saving(disk, file, new_size, enc, encoded) ==
  Outcome([success |-> TRUE, estimated_size |-> encoded, original_size |-> file.bytes,
           compression_ratio |-> Ratio(file.bytes, encoded)],
          PutFile(disk, << "i", "/", "t", "m", "p", ".", "j", "p", "g" >>,
                  [kind |-> "image", format |-> "JPEG", mode |-> "RGB",
                   size |-> file.size, bytes |-> encoded]),
          << >>, << WriteNote(disk, << "i", "/", "t", "m", "p", ".", "j", "p", "g" >>) >>, << >>)

\* estimate_compressed_size once the image is open: the thumbnail, the
\* conversion to RGB, the JPEG encode into a BytesIO buffer, and the sizes
estimate_opened(disk, file, new_size, enc, encoded) ==
  LET size == IF new_size = << >> \/ new_size = << 0, 0 >> THEN file.size
              ELSE Thumbnail(file.size, new_size)
      mode == IF file.mode \in {"RGBA", "LA", "P"} THEN "RGB"
              ELSE IF file.mode # "RGB" THEN "RGB"
              ELSE file.mode
      handed == << [format |-> "JPEG", mode |-> mode, size |-> size] >>
  IN  IF ResizeError(file.size, new_size, TRUE) # None
      THEN Outcome(EngineFailure(ResizeError(file.size, new_size, TRUE)),
                   disk, << >>, << >>, << >>)
      ELSE IF enc # "ok"
      THEN Outcome(EngineFailure("encoder error"), disk, << >>, << >>, handed)
      ELSE Outcome([success |-> TRUE, estimated_size |-> encoded,
                    original_size |-> file.bytes,
                    compression_ratio |-> Ratio(file.bytes, encoded)],
                   disk, << >>, << >>, handed)

\* CompressionEngine.estimate_compressed_size(image_path, quality, new_size);
\* `encoded` is the number of bytes the JPEG encoder makes of the image
estimate_compressed_size(disk, image_path, quality, new_size, enc, encoded) ==
  IF image_path \notin DOMAIN disk
  THEN Outcome(EngineFailure("No such file or directory"), disk, << >>, << >>, << >>)
  ELSE IF disk[image_path].kind # "image"
  THEN Outcome(EngineFailure("cannot identify image file"), disk, << >>, << >>, << >>)
  ELSE estimate_opened(disk, disk[image_path], new_size, enc, encoded)

\* CompressionEngine.get_image_info(image_path)
get_image_info(disk, image_path) ==
  IF image_path \notin DOMAIN disk
  THEN EngineFailure("No such file or directory")
  ELSE IF disk[image_path].kind # "image"
  THEN EngineFailure("cannot identify image file")
  ELSE [success |-> TRUE, dimensions |-> disk[image_path].size,
        mode |-> disk[image_path].mode, format |-> disk[image_path].format,
        file_size |-> disk[image_path].bytes]

\* how many calls one behaviour makes
MaxEngineCalls == 1

\* the inputs tried: an RGBA image of 9 bytes, a palette image of 0 bytes, a
\* file that is no image, and a path where nothing is
EnginePaths ==
  { << "i", "/", "x", ".", "p", "n", "g" >>, << "i", "/", "z", ".", "p", "n", "g" >>,
    << "i", "/", "b", "a", "d", ".", "p", "n", "g" >>, << "i", "/", "n", "o", ".", "p", "n", "g" >> }

\* the destinations tried: native, and legacy (written as PNG)
EngineDests == { << "o", "/", "x", ".", "j", "p", "g" >>, << "o", "/", "x", ".", "p", "s", "d" >> }

\* the target sizes tried on the 4 by 3 and the 2 by 5 image: none, (0, 0),
\* smaller on both sides, larger on one side, larger on both, and a width
\* with no height
Boxes == { << >>, << 0, 0 >>, << 2, 2 >>, << 1, 1 >>, << 8, 2 >>, << 3, 8 >>, << 8, 8 >>, << 5, 0 >> }

\* the quality values tried, of 10..100
Qualities == {10, 85, 100}

EngineInit ==
  /\ dirs = {CwdDir, OutDir, InDir}
  /\ clock = CHOOSE ts \in Timestamps : \A other \in Timestamps : ts <= other
  /\ \E taken \in BOOLEAN :
       fs = [q \in { << "i", "/", "x", ".", "p", "n", "g" >>, << "i", "/", "z", ".", "p", "n", "g" >>,
                     << "i", "/", "b", "a", "d", ".", "p", "n", "g" >> }
                     \cup (IF taken THEN { << "o", "/", "x", ".", "j", "p", "g" >> } ELSE {}) |->
               CASE q = << "i", "/", "x", ".", "p", "n", "g" >> ->
                      [kind |-> "image", format |-> "PNG", mode |-> "RGBA",
                       size |-> << 4, 3 >>, bytes |-> 9]
                 [] q = << "i", "/", "z", ".", "p", "n", "g" >> ->
                      [kind |-> "image", format |-> "PNG", mode |-> "P",
                       size |-> << 2, 5 >>, bytes |-> 0]
                 [] OTHER -> SomeFile]
  /\ EngineIdle
  /\ AllocIdle
  /\ SaveIdle
  /\ BatchIdle
  /\ SideIdle

\* what a compress_image call leaves behind
EngineCompressReturn(input_path, output_path, quality, new_size, maintain_aspect, enc, comp) ==
  /\ fs' = comp.fs
  /\ eLast' = [called |-> TRUE, op |-> "compress", input |-> input_path,
               output |-> output_path, quality |-> quality, new_size |-> new_size,
               maintain_aspect |-> maintain_aspect, enc |-> enc, ret |-> comp.ret,
               inner |-> comp.inner, before |-> fs]

\* one call compress_image(input_path, output_path, quality, new_size,
\* maintain_aspect), without a progress callback
EngineCompress ==
  /\ eCount < MaxEngineCalls
  /\ \E input_path \in EnginePaths, output_path \in EngineDests, new_size \in Boxes,
        maintain_aspect \in BOOLEAN, enc \in {"ok", "error"}, encoded \in EncodedSizes :
       EngineCompressReturn(input_path, output_path, DefaultQuality, new_size,
                            maintain_aspect, enc,
                            compress_image(fs, dirs, input_path, output_path, DefaultQuality,
                                           new_size, maintain_aspect, "none", 0, 1, enc,
                                           clock, encoded))
  /\ eCount' = eCount + 1
  /\ UNCHANGED << dirs, clock, allocVars, saveVars, batchVars, sideVars >>

\* what an estimate_compressed_size call leaves behind
EngineEstimateReturn(image_path, quality, new_size, enc, out) ==
  /\ fs' = out.fs
  /\ eLast' = [called |-> TRUE, op |-> "estimate", input |-> image_path,
               quality |-> quality, new_size |-> new_size, enc |-> enc,
               ret |-> out.ret, allocs |-> out.allocs, writes |-> out.writes,
               handed |-> out.handed, before |-> fs]

\* one call estimate_compressed_size(image_path, quality, new_size)
EngineEstimate ==
  /\ eCount < MaxEngineCalls
  /\ \E image_path \in EnginePaths, quality \in Qualities, new_size \in Boxes,
        enc \in {"ok", "error"}, encoded \in EncodedSizes :
       EngineEstimateReturn(image_path, quality, new_size, enc,
                            estimate_compressed_size(fs, image_path, quality, new_size,
                                                     enc, encoded))
  /\ eCount' = eCount + 1
  /\ UNCHANGED << dirs, clock, allocVars, saveVars, batchVars, sideVars >>

\* one call get_image_info(image_path)
EngineInfo ==
  /\ eCount < MaxEngineCalls
  /\ \E image_path \in EnginePaths :
       eLast' = [called |-> TRUE, op |-> "info", input |-> image_path,
                 ret |-> get_image_info(fs, image_path), before |-> fs]
  /\ eCount' = eCount + 1
  /\ UNCHANGED << fs, dirs, clock, allocVars, saveVars, batchVars, sideVars >>

EngineNext == EngineCompress \/ EngineEstimate \/ EngineInfo

SpecEngine == EngineInit /\ [][EngineNext]_vars

\* C1: compress_multiple_images returns a list as long as image_paths, and the
\* result at index i is the result of converting input i: while the loop runs
\* there is one result per item done, and in the returned list the k-th result
\* was made in the k-th iteration, from the k-th path (its sizes are those of
\* that file, its output path the one the save inside that iteration gave,
\* its input_path, when it has one, that path).
C1_BatchResultsMatchInputs ==
  /\ bpc = "loop" => Len(results) = bI /\ Len(itemLog) = bI
  /\ bpc = "returned" =>
       /\ Len(results) = Len(bArgs.image_paths)
       /\ Len(itemLog) = Len(bArgs.image_paths)
       /\ \A k \in 1..Len(results) :
            LET path == bArgs.image_paths[k]
            IN  /\ itemLog[k].index = k - 1
                /\ itemLog[k].input = path
                /\ "input_path" \in DOMAIN results[k] => results[k].input_path = path
                /\ results[k].success =>
                     /\ path \in DOMAIN itemLog[k].before
                     /\ itemLog[k].before[path].kind = "image"
                     /\ results[k].original_size = itemLog[k].before[path].bytes
                     /\ results[k].original_dimensions = itemLog[k].before[path].size
                     /\ itemLog[k].inner.called
                     /\ itemLog[k].inner.ret.success
                     /\ results[k].output_path = itemLog[k].inner.ret.output_path

\* a batch of two different images has returned, the first result being that
\* of j/x.png (0 bytes) and the second that of i/x.png (9 bytes)
C1_Witness ==
  /\ bpc = "returned"
  /\ bArgs.image_paths = << << "j", "/", "x", ".", "p", "n", "g" >>, << "i", "/", "x", ".", "p", "n", "g" >> >>
  /\ Len(results) = 2
  /\ results[1].success /\ results[1].original_size = 0
  /\ results[2].success /\ results[2].original_size = 9

\* C2: a failure of item i (a file that does not decode, an unsupported
\* format, an encoder error) is recorded as a failure result at index i, and
\* the later items are still processed: every iteration whose input did not
\* decode or whose save failed left a failure with an error text at its own
\* index, and a batch that returned ran compress_image on every path, in order.
C2_FailuresAreIsolated ==
  /\ bpc \in {"loop", "returned"} =>
       /\ Len(results) = Len(itemLog)
       /\ \A k \in 1..Len(itemLog) :
            LET item == itemLog[k]
                undecodable == \/ item.input \notin DOMAIN item.before
                               \/ item.before[item.input].kind # "image"
                unsaved == item.inner.called /\ ~item.inner.ret.success
            IN  /\ item.input = bArgs.image_paths[k]
                /\ (undecodable \/ unsaved) =>
                     /\ results[k].success = FALSE
                     /\ "error" \in DOMAIN results[k]
  /\ bpc = "returned" =>
       /\ Len(itemLog) = Len(bArgs.image_paths)
       /\ \A k \in 1..Len(itemLog) : itemLog[k].compressed

\* i/bad.png, first of two, did not decode; i/x.png after it was converted
C2_Witness ==
  /\ bpc = "returned"
  /\ Len(results) = 2
  /\ itemLog[1].input = << "i", "/", "b", "a", "d", ".", "p", "n", "g" >>
  /\ results[1].success = FALSE
  /\ itemLog[2].input = << "i", "/", "x", ".", "p", "n", "g" >>
  /\ results[2].success = TRUE

\* C11: no public operation of the core lets an exception escape; for
\* compress_multiple_images: the call never ends by raising, whatever the
\* callbacks it was given do.
C11_NoExceptionEscapes == bpc # "raised"

\* a result dict carries an error field exactly when its success is false
ErrorIffFailure(d) ==
  /\ "success" \in DOMAIN d
  /\ d.success \in BOOLEAN
  /\ "error" \in DOMAIN d <=> d.success = FALSE

\* C12: in every result of save_image_universal, compress_image and
\* compress_multiple_images an error field is present if and only if success
\* is false: success and success-with-fallback results carry none, failure
\* results always carry one. The dicts looked at are those a batch has made so
\* far: of the save inside each item, of compress_image, and of the list.
C12_ErrorIffFailure ==
  /\ \A k \in 1..Len(itemLog) :
       /\ itemLog[k].inner.called => ErrorIffFailure(itemLog[k].inner.ret)
       /\ itemLog[k].compressed => ErrorIffFailure(itemLog[k].comp)
  /\ \A k \in 1..Len(results) : ErrorIffFailure(results[k])

\* a batch has returned a fallback success (a PNG written for .heic) next to a
\* failure with its error text
C12_Witness ==
  /\ bpc = "returned"
  /\ Len(results) = 2
  /\ results[1].success /\ results[1].fallback /\ "error" \notin DOMAIN results[1]
  /\ ~results[2].success /\ "error" \in DOMAIN results[2]
  /\ itemLog[1].inner.called /\ itemLog[1].inner.ret.success

\* the two-argument progress calls of the loop, in the order they were made
Announcements == SelectSeq(events, LAMBDA e : e.cb = "progress" /\ "name" \in DOMAIN e)

\* the place in events of the k-th announcement
AnnouncedAt(k) ==
  CHOOSE p \in 1..Len(events) :
    /\ events[p].cb = "progress" /\ "name" \in DOMAIN events[p]
    /\ Len(SelectSeq(SubSeq(events, 1, p),
                     LAMBDA e : e.cb = "progress" /\ "name" \in DOMAIN e)) = k

\* the events of item k other than its announcement: the calls of
\* individual_progress and of the image callback come after the announcement
AnnouncedFirst(k) ==
  \A q \in 1..Len(events) :
    (\/ events[q].cb = "progress" /\ "name" \notin DOMAIN events[q]
                                  /\ "shown" \in DOMAIN events[q] /\ events[q].shown = k
     \/ events[q].cb = "image" /\ events[q].item = k)
      => q > AnnouncedAt(k)

\* C13 (as the code has it): when a progress callback is given, each item i is
\* announced once, before anything else is done for it, by a progress call
\* whose text carries the one-based position i + 1, the total count and the
\* base name of item i, and whose value is i / total * 100.
C13_AnnouncedOneBased ==
  (bpc # "idle" /\ bArgs.progress_callback # "none") =>
    /\ Len(Announcements) = Len(itemLog)
    /\ \A k \in 1..Len(itemLog) :
         /\ Announcements[k].shown = itemLog[k].index + 1
         /\ Announcements[k].total = Len(bArgs.image_paths)
         /\ Announcements[k].name = splitext(basename(bArgs.image_paths[k]))[1]
         /\ Announcements[k].value = [num |-> itemLog[k].index * 100,
                                      den |-> Len(bArgs.image_paths)]
         /\ AnnouncedFirst(k)

\* C13 (as the spec has it): the announcement of item i carries the zero-based
\* index i, the total count and the base name of item i.
C13_AnnouncedZeroBased ==
  (bpc # "idle" /\ bArgs.progress_callback # "none") =>
    /\ Len(Announcements) = Len(itemLog)
    /\ \A k \in 1..Len(itemLog) :
         /\ Announcements[k].shown = itemLog[k].index
         /\ Announcements[k].total = Len(bArgs.image_paths)
         /\ Announcements[k].name = splitext(basename(bArgs.image_paths[k]))[1]

\* the second of two items was announced as 2 of 2 and then converted
C13_Witness ==
  /\ bpc = "returned"
  /\ bArgs.progress_callback = "ok"
  /\ Len(itemLog) = 2
  /\ Len(Announcements) = 2
  /\ Announcements[2].shown = 2 /\ Announcements[2].total = 2
  /\ Announcements[2].name = << "x" >>
  /\ results[2].success

\* the places in events of the image callback's calls for item k
PreviewsOf(k) == {p \in 1..Len(events) : events[p].cb = "image" /\ events[p].item = k}

\* the item an event belongs to: the position the progress text shows, or
\* the item of the image callback's call; 0 for the final progress call
ItemOf(e) ==
  IF e.cb = "image" THEN e.item
  ELSE IF "shown" \in DOMAIN e THEN e.shown
  ELSE 0

\* C14: when an image callback is given it is called for item i if and only
\* if compress_image succeeded for item i, once, with the source path, the
\* output path the save resolved and that result; the call comes after every
\* progress call of item i, and no event of an earlier item comes after an
\* event of a later one.
C14_PreviewIffSuccess ==
  (bpc # "idle" /\ bArgs.image_callback # "none") =>
    /\ \A k \in 1..Len(itemLog) :
         LET item == itemLog[k]
             done == item.compressed /\ item.comp.success
         IN  /\ done => Cardinality(PreviewsOf(k)) = 1
             /\ ~done => PreviewsOf(k) = {}
             /\ \A p \in PreviewsOf(k) :
                  /\ events[p].input = bArgs.image_paths[k]
                  /\ events[p].output = item.inner.ret.output_path
                  /\ item.inner.ret.output_path \in DOMAIN fs
                  /\ events[p].result = item.comp
                  /\ \A q \in 1..Len(events) :
                       (events[q].cb = "progress" /\ ItemOf(events[q]) = k) => q < p
    /\ \A p, q \in 1..Len(events) :
         (p < q /\ ItemOf(events[p]) > 0 /\ ItemOf(events[q]) > 0)
           => ItemOf(events[p]) <= ItemOf(events[q])
    /\ \A p \in 1..Len(events) : ItemOf(events[p]) <= Len(itemLog)

\* of two items the first failed and was not shown, the second succeeded and
\* was shown after its own progress calls
C14_Witness ==
  /\ bpc = "returned"
  /\ bArgs.image_callback = "ok" /\ bArgs.progress_callback = "ok"
  /\ Len(itemLog) = 2
  /\ ~results[1].success /\ PreviewsOf(1) = {}
  /\ results[2].success /\ Cardinality(PreviewsOf(2)) = 1
  /\ \E p \in PreviewsOf(2) : p = Len(events) - 1 /\ events[p - 1].shown = 2

\* the places in events of the progress calls whose value is 100
Hundreds ==
  {p \in 1..Len(events) :
     /\ "value" \in DOMAIN events[p]
     /\ events[p].value.num = 100 * events[p].value.den}

\* C15: when a progress callback is given, compress_multiple_images makes
\* exactly one final progress call with value 100 after the last item: it is
\* the last event of the batch, it is made also for an empty list and when
\* every item failed, and no progress call before it reports 100.
C15_FinalProgressOnce ==
  (bpc # "idle" /\ bArgs.progress_callback # "none") =>
    /\ bpc = "loop" => Hundreds = {}
    /\ bpc \in {"returned", "raised"} =>
         /\ Len(itemLog) = Len(bArgs.image_paths)
         /\ events # << >>
         /\ Hundreds = {Len(events)}
         /\ events[Len(events)].cb = "progress"
         /\ events[Len(events)].text = "Compresion completada"
         /\ "shown" \notin DOMAIN events[Len(events)]

\* both items of a batch failed, and the last event is the final call with 100
C15_Witness ==
  /\ bpc = "returned"
  /\ bArgs.progress_callback = "ok"
  /\ Len(results) = 2
  /\ ~results[1].success /\ ~results[2].success
  /\ events[Len(events)].value = [num |-> 100, den |-> 1]
  /\ Hundreds = {Len(events)}

\* C16: in every successful compress_image result compression_ratio is
\* (1 - compressed_size / original_size) * 100, compressed_size being the size
\* of the file at the reported output path, and it is 0 when original_size is
\* 0; estimate_compressed_size has the same formula and zero case, on the
\* encoded buffer's size. The ratio num / den is compared by cross-multiplying.
C16_RatioFormula ==
  (eLast.called /\ eLast.op \in {"compress", "estimate"} /\ eLast.ret.success) =>
    LET ret == eLast.ret
        r == ret.compression_ratio
        original == eLast.before[eLast.input].bytes
        final == IF eLast.op = "compress" THEN fs[ret.output_path].bytes
                 ELSE ret.estimated_size
    IN  /\ ret.original_size = original
        /\ eLast.op = "compress" =>
             /\ ret.output_path \in DOMAIN fs
             /\ ret.compressed_size = fs[ret.output_path].bytes
        /\ r.den > 0
        /\ original > 0 => r.num * original = (original - final) * 100 * r.den
        /\ original = 0 => r.num = 0

\* the 0-byte image was converted to a 4-byte file: the ratio is 0
C16_Witness ==
  /\ eLast.called /\ eLast.op = "compress" /\ eLast.ret.success
  /\ eLast.ret.original_size = 0
  /\ eLast.ret.compressed_size = 4
  /\ eLast.ret.compression_ratio.num = 0

\* C17: estimate_compressed_size never creates, changes or deletes a file and
\* never asks the path allocator for a path, whether or not the input can be
\* read, for every quality and target size: the disk after the call is the
\* disk before it.
C17_EstimateWritesNothing ==
  (eLast.called /\ eLast.op = "estimate") =>
    /\ fs = eLast.before
    /\ eLast.allocs = << >>
    /\ eLast.writes = << >>

\* an estimate of i/x.png with a target size succeeded and the disk is as it was
C17_Witness ==
  /\ eLast.called /\ eLast.op = "estimate" /\ eLast.ret.success
  /\ eLast.input = << "i", "/", "x", ".", "p", "n", "g" >>
  /\ eLast.new_size = << 2, 2 >>
  /\ eLast.ret.estimated_size = 4
  /\ fs = eLast.before

\* C18: in a successful compress_image with a target size (w, h), not (0, 0):
\* with maintain_aspect the final width and height are no larger than the
\* original's and no larger than w and h; without it they are exactly (w, h),
\* also when that enlarges the image. final_dimensions reports the size of the
\* image that was saved.
C18_ResizeDimensions ==
  (/\ eLast.called /\ eLast.op = "compress" /\ eLast.ret.success
   /\ eLast.new_size \notin {<< >>, << 0, 0 >>}) =>
    LET original == eLast.before[eLast.input].size
        final == eLast.ret.final_dimensions
        w == eLast.new_size[1]
        h == eLast.new_size[2]
    IN  /\ eLast.ret.original_dimensions = original
        /\ eLast.maintain_aspect =>
             /\ final[1] <= original[1] /\ final[2] <= original[2]
             /\ final[1] <= w /\ final[2] <= h
             /\ final[1] >= 1 /\ final[2] >= 1
        /\ ~eLast.maintain_aspect => final = << w, h >>
        /\ fs[eLast.ret.output_path].size = final
        /\ eLast.inner.handed[1].size = final

\* the 4 by 3 image, asked to fit 8 by 2 with its aspect kept, came out 3 by 2
C18_Witness ==
  /\ eLast.called /\ eLast.op = "compress" /\ eLast.ret.success
  /\ eLast.maintain_aspect
  /\ eLast.new_size = << 8, 2 >>
  /\ eLast.ret.original_dimensions = << 4, 3 >>
  /\ eLast.ret.final_dimensions = << 3, 2 >>

\* the dict only the final else of the native chain returns
UnknownFormatDict(ret, ext) ==
  /\ ~ret.success
  /\ "error" \in DOMAIN ret
  /\ ret.error = UnknownFormatError(ext)

\* the extensions of the destinations the calls are made with
SaveExts == {LowerStr(splitext(p)[2]) : p \in SavePaths}

\* C19: save_image_universal handles every extension of
\* FormatHandler.SUPPORTED_FORMATS in a branch other than the final
\* "formato no reconocido" else (native, specialised, best-effort or legacy),
\* and every extension outside that list ends in that else, which allocates a
\* path, encodes nothing, writes nothing and returns the unknown-format dict.
C19_SupportedIffRecognised ==
  /\ SUPPORTED_FORMATS \subseteq SaveExts
  /\ sLast.called =>
       /\ LastExt \in SUPPORTED_FORMATS <=> ~UnknownFormatDict(sLast.ret, LastExt)
       /\ LastExt \notin SUPPORTED_FORMATS =>
            /\ sLast.handed = << >>
            /\ sLast.writes = << >>
            /\ fs = sLast.before

\* the last extension of the legacy list was handled by the PNG fallback
C19_Witness ==
  /\ sLast.called
  /\ LastExt = Ext_im
  /\ LastExt \in SUPPORTED_FORMATS
  /\ sLast.ret.success
  /\ "fallback" \in DOMAIN sLast.ret
  /\ sLast.ret.fallback

\* the three colour-mode facts of a JPEG destination for one finished call
JpegHandsRgb(call) ==
  /\ Len(call.handed) = 1
  /\ call.handed[1].format = "JPEG"
  /\ call.handed[1].mode = "RGB"
  /\ call.handed[1].size = call.img.size
  /\ ~call.ret.success => ("error" \in DOMAIN call.ret /\ call.ret.error # "cannot write mode")
  /\ call.ret.success =>
       /\ call.ret.output_path \in DOMAIN fs
       /\ fs[call.ret.output_path].format = "JPEG"
       /\ fs[call.ret.output_path].mode = "RGB"

\* C20: with a .jpg or .jpeg destination and an input of any of the six colour
\* modes (RGB, RGBA, L, LA, P, 1) the one image handed to the JPEG encoder is
\* RGB with the input's size, no failure is the encoder's refusal of the mode,
\* the call succeeds whenever the encoder works and the directory exists, and
\* the file a success leaves is RGB: an RGBA source always gives an RGB output.
C20_JpegAlwaysRgb ==
  (/\ sLast.called
   /\ LastExt \in {Ext_jpg, Ext_jpeg}
   /\ sLast.img.mode \in {"RGB", "RGBA", "L", "LA", "P", "1"}) =>
     /\ JpegHandsRgb(sLast)
     /\ (sLast.enc = "ok" /\ dirname(sLast.dest) \in dirs) => sLast.ret.success

\* an RGBA source was saved as a.jpg and the file written is RGB
C20_Witness ==
  /\ sLast.called
  /\ sLast.img.mode = "RGBA"
  /\ LastExt = Ext_jpg
  /\ sLast.ret.success
  /\ sLast.ret.output_path \in DOMAIN fs
  /\ fs[sLast.ret.output_path].mode = "RGB"

\* C21: with a .png destination an input of mode P, L, RGB or RGBA is handed
\* to the PNG encoder with its mode unchanged, and an input of any other mode
\* is handed over converted to RGBA.
C21_PngPassThrough ==
  (/\ sLast.called
   /\ LastExt = Ext_png
   /\ Len(sLast.handed) >= 1) =>
     /\ sLast.handed[1].format = "PNG"
     /\ sLast.handed[1].mode = IF sLast.img.mode \in {"P", "L", "RGB", "RGBA"}
                               THEN sLast.img.mode ELSE "RGBA"

\* the image estimate_compressed_size hands to its JPEG encoder for the input
\* and the target size of the last compress_image call
EstimateHandedFor(call) ==
  estimate_compressed_size(call.before, call.input, call.quality, call.new_size,
                           "ok", call.inner.img.bytes).handed

\* C22: for the same source image and the same target size, the image
\* estimate_compressed_size hands to the in-memory JPEG encoder has the
\* dimensions and the colour mode of the image compress_image hands to the
\* JPEG encoder for a .jpg destination, with maintain_aspect true or false.
C22_EstimateSameImage ==
  (/\ eLast.called
   /\ eLast.op = "compress"
   /\ LowerStr(splitext(eLast.output)[2]) = Ext_jpg
   /\ eLast.inner.called
   /\ Len(eLast.inner.handed) = 1) =>
     /\ Len(EstimateHandedFor(eLast)) = 1
     /\ EstimateHandedFor(eLast)[1].size = eLast.inner.handed[1].size
     /\ EstimateHandedFor(eLast)[1].mode = eLast.inner.handed[1].mode

\* C23: with an .avif, .heic or .heif destination the PNG fallback is taken
\* only when the encoder is unavailable at run time; an encode that fails for
\* another reason gives a failure result with the error text, not a
\* success-with-fallback.
C23_FallbackOnlyWhenUnavailable ==
  (/\ sLast.called
   /\ LastExt \in {Ext_avif, Ext_heic, Ext_heif}) =>
     /\ ("fallback" \in DOMAIN sLast.ret /\ sLast.ret.fallback) => sLast.enc = "unavailable"
     /\ sLast.enc = "error" =>
          /\ ~sLast.ret.success
          /\ "error" \in DOMAIN sLast.ret

\* whether the decode or the resize of a compress_image call fails: nothing,
\* or no image, at the input path, or a target size the resize step refuses
DecodeOrResizeFails(call) ==
  \/ call.input \notin DOMAIN call.before
  \/ call.before[call.input].kind # "image"
  \/ /\ call.new_size # << >>
     /\ call.new_size # << 0, 0 >>
     /\ call.new_size[1] < 1 \/ call.new_size[2] < 1

\* C24: in compress_image the resize is over before the colour mode is
\* normalised and before the output path is allocated: the image that enters
\* save_image_universal has its final dimensions and still the source's mode,
\* and every allocation is made inside that call; when the decode or the
\* resize fails the call fails, the filesystem is as before and no path was
\* allocated.
C24_ResizeBeforeSave ==
  (eLast.called /\ eLast.op = "compress") =>
     /\ DecodeOrResizeFails(eLast) =>
          /\ ~eLast.ret.success
          /\ ~eLast.inner.called
          /\ fs = eLast.before
     /\ eLast.inner.called =>
          /\ ~DecodeOrResizeFails(eLast)
          /\ eLast.inner.img.mode = eLast.before[eLast.input].mode
          /\ eLast.inner.img.size = Resized(eLast.before[eLast.input].size,
                                            eLast.new_size, eLast.maintain_aspect)
          /\ eLast.inner.before = eLast.before
          /\ \A k \in 1..Len(eLast.inner.handed) :
               eLast.inner.handed[k].size = eLast.inner.img.size

\* a resize to (5, 0) failed on an image that opened, and nothing was allocated
\* or written
C24_Witness ==
  /\ eLast.called
  /\ eLast.op = "compress"
  /\ eLast.input = << "i", "/", "x", ".", "p", "n", "g" >>
  /\ eLast.new_size = << 5, 0 >>
  /\ ~eLast.ret.success
  /\ ~eLast.inner.called
  /\ fs = eLast.before

\* C25: with a .pdf destination and an input of any of the six colour modes
\* save_as_pdf hands the JPEG encoder an RGB image, and with the PDF backend
\* working and the directory there the save succeeds.
C25_PdfFlattens ==
  (/\ sLast.called
   /\ LastExt = Ext_pdf
   /\ sLast.img.mode \in {"RGB", "RGBA", "L", "LA", "P", "1"}
   /\ sLast.enc = "ok"
   /\ dirname(sLast.dest) \in dirs) =>
     /\ Len(sLast.handed) = 1
     /\ sLast.handed[1].format = "JPEG"
     /\ sLast.handed[1].mode = "RGB"
     /\ sLast.ret.success

\* whether item k of the batch left an output file behind
WroteOutput(k) ==
  /\ itemLog[k].inner.called
  /\ itemLog[k].inner.writes # << >>

\* C27: in a compress_multiple_images batch result k is a success exactly when
\* an output file was written for item k: a failure result means no file was
\* written for that item, whatever the progress and image callbacks do.
C27_SuccessIffOutput ==
  (Len(results) = Len(itemLog)) =>
    \A k \in 1..Len(results) : results[k].success <=> WroteOutput(k)

\* ------------------------------------- two conversions running concurrently

\* the conversions that run at once, each in a thread of its own
Conversions == {1, 2}

\* how many images each of them converts, one after another
MaxConcItems == 2

\* the output paths they ask for
ConcPaths == { << "a", ".", "j", "p", "g" >>, << "o", "/", "a", ".", "j", "p", "g" >> }

\* the file conversion w writes
ConcFile(w) == Written("JPEG", [mode |-> "RGB", size |-> << 4, 3 >>, bytes |-> w])

\* how many allocations conversion w has made
ConcMade(w) == Cardinality({k \in 1..Len(cLog) : cLog[k].by = w})

\* the paths handed out to the other conversions and not yet created
ConcPending(w) ==
  {cGot[v].path : v \in {u \in Conversions : u # w /\ cPc[u] = "allocated"}}

ConcInit ==
  /\ cDesired \in [Conversions -> ConcPaths]
  /\ cPc = [w \in Conversions |-> "start"]
  /\ cGot = [w \in Conversions |-> NoCall]
  /\ cLog = << >>
  /\ clock \in Timestamps
  /\ dirs = {CwdDir, OutDir}
  /\ \E k \in {0, 1, 2, MaxPrefill} : fs = Prefilled(cDesired[1], k, -1, FALSE)
  /\ AllocIdle
  /\ SaveIdle
  /\ BatchIdle
  /\ EngineIdle
  /\ ConfigIdle
  /\ HistoryIdle
  /\ GuiIdle

\* what the allocation leaves behind, `got` being the allocator's answer
ConcAllocated(w, got) ==
  /\ cGot' = [cGot EXCEPT ![w] = got]
  /\ cLog' = Append(cLog, [by |-> w, path |-> got.path, pending |-> ConcPending(w)])

\* unique_path = generate_unique_filename(output_path) in conversion w: the
\* existence checks, nothing created
ConcAllocate(w) ==
  /\ cPc[w] = "start"
  /\ ConcMade(w) < MaxConcItems
  /\ ConcAllocated(w, AllocNote(fs, dirs, cDesired[w], clock))
  /\ cPc' = [cPc EXCEPT ![w] = "allocated"]
  /\ UNCHANGED << fs, dirs, clock, cDesired, allocVars, saveVars, batchVars, engineVars,
                  configVars, historyVars, guiVars >>

\* img.save(unique_path, "JPEG", ...) in conversion w: the file is created,
\* or replaced when it is there by now
ConcWrite(w) ==
  /\ cPc[w] = "allocated"
  /\ fs' = PutFile(fs, cGot[w].path, ConcFile(w))
  /\ cPc' = [cPc EXCEPT ![w] = "start"]
  /\ UNCHANGED << dirs, clock, cDesired, cGot, cLog, allocVars, saveVars, batchVars,
                  engineVars, configVars, historyVars, guiVars >>

ConcNext == \E w \in Conversions : ConcAllocate(w) \/ ConcWrite(w)

SpecConc == ConcInit /\ [][ConcNext]_vars

\* C26: generate_unique_filename can hand one path to two conversions only
\* when they run concurrently, the second asking while the path handed to the
\* first is not yet created; with one conversion at a time every allocated
\* path differs from the ones allocated before.
C26_DistinctUnlessConcurrent ==
  \A i, j \in 1..Len(cLog) :
    (i < j /\ cLog[i].path = cLog[j].path) => cLog[i].path \in cLog[j].pending

\* the state the claim says can be reached: both conversions hold the same
\* path, neither has created it
C26_SameUnwrittenPath ==
  /\ cPc[1] = "allocated"
  /\ cPc[2] = "allocated"
  /\ cGot[1].path = cGot[2].path
  /\ cGot[1].path \notin DOMAIN fs

\* --------------------------------------------------------- ConfigManager

\* how many ConfigManager calls one behaviour makes
MaxConfigOps == 3

\* "Mantener solo los últimos 10" of add_recent_format
MaxRecent == 10

\* the settings modelled: two scalars, a string that is migrated, and the one
\* setting whose value is a list
ConfigKeys == {"theme", "quality", "output_format", "recent_formats"}

\* the list literal of default_config, as it is written in __init__
DefaultRecent == << Ext_jpg, Ext_png, Ext_webp >>

\* the dict literal of __init__; "D" names the list object made for
\* recent_formats, "O" the list object that self.config holds on its own
DefaultConfig ==
  [theme |-> "modern_light", quality |-> 85, output_format |-> Ext_jpg,
   recent_formats |-> "D"]

\* a dict with the list it refers to in the place of the reference: what
\* json.dump writes, and what a reader of the setting sees
Resolved(dict, lists) == [dict EXCEPT !.recent_formats = lists[dict.recent_formats]]

\* the contents a configuration file may have: one of an older version, one
\* with an old theme name and a format without its dot, a complete one
ConfigFiles ==
  { [theme |-> "light"],
    [theme |-> "dark", quality |-> 50, output_format |-> << "p", "n", "g" >>],
    [theme |-> "modern_dark", quality |-> 50, output_format |-> Ext_webp,
     recent_formats |-> << Ext_gif, Ext_jpg >>] }

\* _migrate_config(old_config) for the scalar settings: old theme names are
\* renamed, the format gets its dot, absent settings get the default's value
MigratedScalar(old_config, defaults, key) ==
  IF key \notin DOMAIN old_config THEN defaults[key]
  ELSE IF key = "theme" /\ old_config[key] = "light" THEN "modern_light"
  ELSE IF key = "theme" /\ old_config[key] = "dark" THEN "modern_dark"
  ELSE IF key = "output_format" /\ old_config[key][1] # "." THEN << "." >> \o old_config[key]
  ELSE old_config[key]

\* _migrate_config(old_config): the migrated dict; a list read from the file is
\* a new object, an absent recent_formats is the default's list object itself
\* (migrated[key] = default_value)
migrate_config(old_config, defaults) ==
  [key \in ConfigKeys |->
     IF key = "recent_formats"
     THEN IF key \in DOMAIN old_config THEN "O" ELSE defaults[key]
     ELSE MigratedScalar(old_config, defaults, key)]

\* the list objects after the dict read from a file was taken over: the
\* file's list when it has one, else self.config is left with the default's
\* list object and holds none of its own
HeapAfterRead(lists, old_config) ==
  [lists EXCEPT !.O = IF "recent_formats" \in DOMAIN old_config
                      THEN old_config.recent_formats ELSE << >>]

\* config.update(migrated): every key of migrated replaces the one of config
Updated(dict, updates) ==
  [key \in DOMAIN dict |-> IF key \in DOMAIN updates THEN updates[key] ELSE dict[key]]

\* load_config when the file holds a dict: default_config.copy(), updated
\* with the migrated dict
ConfigLoaded(file) ==
  /\ default_config = DefaultConfig
  /\ config = Updated(DefaultConfig, migrate_config(file, DefaultConfig))
  /\ heap = HeapAfterRead([D |-> DefaultRecent, O |-> << >>], file)
  /\ cfgFile = [has |-> TRUE, content |-> file]

\* load_config when there is no file, or one that cannot be parsed:
\* default_config.copy()
ConfigFresh(found) ==
  /\ default_config = DefaultConfig
  /\ config = DefaultConfig
  /\ heap = [D |-> DefaultRecent, O |-> << >>]
  /\ cfgFile = [has |-> found, content |-> IF found THEN "corrupt" ELSE None]

ConfigInit ==
  /\ \/ \E file \in ConfigFiles : ConfigLoaded(file)
     \/ \E found \in BOOLEAN : ConfigFresh(found)
  /\ cfgLast = NoCall
  /\ cfgCount = 0
  /\ fs = << >>
  /\ dirs = {CwdDir}
  /\ clock = CHOOSE ts \in Timestamps : \A other \in Timestamps : ts <= other
  /\ AllocIdle
  /\ SaveIdle
  /\ BatchIdle
  /\ EngineIdle
  /\ ConcIdle
  /\ HistoryIdle
  /\ GuiIdle

\* save_config after the change: json.dump(self.config) when the file can be
\* opened; the call is counted
ConfigSaved(io, op) ==
  /\ cfgFile' = IF io = "ok" THEN [has |-> TRUE, content |-> Resolved(config', heap')]
                ELSE cfgFile
  /\ cfgLast' = [called |-> TRUE, op |-> op, io |-> io]
  /\ cfgCount' = cfgCount + 1
  /\ UNCHANGED << default_config, fs, dirs, clock, allocVars, saveVars, batchVars,
                  engineVars, concVars, historyVars, guiVars >>

\* the values set(key, value) is called with
ConfigSettings ==
  { << "theme", "modern_dark" >>, << "quality", 50 >>, << "output_format", Ext_png >> }

\* set(key, value): self.config[key] = value, then save_config()
ConfigSet ==
  /\ cfgCount < MaxConfigOps
  /\ \E kv \in ConfigSettings, io \in {"ok", "fail"} :
       /\ config' = [config EXCEPT ![kv[1]] = kv[2]]
       /\ heap' = heap
       /\ ConfigSaved(io, "set")

\* the dicts update_multiple is called with
ConfigUpdates ==
  { [quality |-> 50, output_format |-> Ext_webp], [theme |-> "modern_dark"] }

\* update_multiple(updates): self.config.update(updates), then save_config()
ConfigUpdateMultiple ==
  /\ cfgCount < MaxConfigOps
  /\ \E updates \in ConfigUpdates, io \in {"ok", "fail"} :
       /\ config' = Updated(config, updates)
       /\ heap' = heap
       /\ ConfigSaved(io, "update_multiple")

\* recent.remove(format_ext): the list without the first format_ext
RemoveFirst(recent, format_ext) ==
  LET at == CHOOSE k \in 1..Len(recent) :
              recent[k] = format_ext /\ \A j \in 1..(k - 1) : recent[j] # format_ext
  IN  SubSeq(recent, 1, at - 1) \o SubSeq(recent, at + 1, Len(recent))

\* the list object `recent` after the remove and the insert(0, format_ext),
\* both done in place
RecentTouched(recent, format_ext) ==
  << format_ext >> \o (IF \E k \in 1..Len(recent) : recent[k] = format_ext
                       THEN RemoveFirst(recent, format_ext) ELSE recent)

\* recent[:10]: a new list
FirstTen(recent) == SubSeq(recent, 1, IF Len(recent) < MaxRecent THEN Len(recent) ELSE MaxRecent)

\* the formats add_recent_format is called with
RecentInputs == { Ext_jpg, Ext_gif, Ext_bmp }

\* add_recent_format(format_ext): recent is the list object self.config holds
\* (self.get returns the object, not a copy); it is changed in place, its
\* first ten entries become a new list, and set("recent_formats", ...) stores
\* that list and saves
ConfigAddRecent ==
  /\ cfgCount < MaxConfigOps
  /\ \E format_ext \in RecentInputs, io \in {"ok", "fail"} :
       /\ heap' = [[heap EXCEPT ![config.recent_formats] =
                      RecentTouched(heap[config.recent_formats], format_ext)]
                   EXCEPT !.O = FirstTen(RecentTouched(heap[config.recent_formats], format_ext))]
       /\ config' = [config EXCEPT !.recent_formats = "O"]
       /\ ConfigSaved(io, "add_recent_format")

\* reset_to_defaults: self.config = self.default_config.copy(), a copy that
\* shares the default's list object, then save_config()
ConfigReset ==
  /\ cfgCount < MaxConfigOps
  /\ \E io \in {"ok", "fail"} :
       /\ config' = default_config
       /\ heap' = [heap EXCEPT !.O = << >>]
       /\ ConfigSaved(io, "reset_to_defaults")

\* import_config(import_path): the file's dict is migrated and taken over; a
\* file that cannot be read or parsed changes nothing and False is returned
ConfigImport ==
  /\ cfgCount < MaxConfigOps
  /\ \/ \E imported \in ConfigFiles, io \in {"ok", "fail"} :
          /\ config' = Updated(config, migrate_config(imported, default_config))
          /\ heap' = HeapAfterRead(heap, imported)
          /\ ConfigSaved(io, "import_config")
     \/ /\ cfgLast' = [called |-> TRUE, op |-> "import_config", io |-> "unreadable"]
        /\ cfgCount' = cfgCount + 1
        /\ UNCHANGED << config, default_config, heap, cfgFile, fs, dirs, clock, allocVars,
                        saveVars, batchVars, engineVars, concVars, historyVars, guiVars >>

ConfigNext ==
  ConfigSet \/ ConfigUpdateMultiple \/ ConfigAddRecent \/ ConfigReset \/ ConfigImport

SpecConfig == ConfigInit /\ [][ConfigNext]_vars

\* default_config as it was written in __init__
OriginalDefaults == Resolved(DefaultConfig, [D |-> DefaultRecent, O |-> << >>])

\* C28: after any sequence of set, update_multiple, add_recent_format,
\* import_config and reset_to_defaults calls the stored default configuration
\* is the one written in __init__, and right after reset_to_defaults every
\* setting, recent_formats = [".jpg", ".png", ".webp"] among them, has its
\* original default value.
C28_ResetRestoresDefaults ==
  /\ Resolved(default_config, heap) = OriginalDefaults
  /\ (cfgLast.called /\ cfgLast.op = "reset_to_defaults") =>
       Resolved(config, heap) = OriginalDefaults

\* --------------------------------------------------------- HistoryManager

\* how many HistoryManager calls one behaviour makes
MaxHistoryOps == 3

\* list[:n] for n > 0: the oldest n entries
FirstItems(list, n) == SubSeq(list, 1, IF n < Len(list) THEN n ELSE Len(list))

\* list[-n:] as Python slices: the last n entries for n > 0, and the whole
\* list for n = 0 (since -0 is 0)
LastItems(list, n) ==
  IF n > 0 THEN SubSeq(list, Max(1, Len(list) - n + 1), Len(list))
  ELSE SubSeq(list, 1 - n, Len(list))

\* the entries of a list
Items(list) == {list[k] : k \in 1..Len(list)}

\* the values max_items is constructed with
HistoryLimits == {0, 1, 2, 3}

\* how many entries the history file holds when the manager is constructed
HistoryFileSizes == {0, 2, 4}

\* load_history on a file holding the entries 1..n: history[-self.max_items:]
HistoryLoaded(limit, n) ==
  /\ max_items = limit
  /\ history = LastItems([k \in 1..n |-> k], limit)
  /\ hFile = [has |-> TRUE, list |-> [k \in 1..n |-> k]]
  /\ hEvicted = (1..n) \ Items(history)
  /\ hNext = n + 1

\* load_history when there is no file, or one that holds no list or cannot be
\* parsed: []
HistoryFresh(limit, found) ==
  /\ max_items = limit
  /\ history = << >>
  /\ hFile = [has |-> found, list |-> << >>]
  /\ hEvicted = {}
  /\ hNext = 1

HistoryInit ==
  /\ \E limit \in HistoryLimits :
       \/ \E n \in HistoryFileSizes : HistoryLoaded(limit, n)
       \/ \E found \in BOOLEAN : HistoryFresh(limit, found)
  /\ hLast = NoCall
  /\ hCount = 0
  /\ fs = << >>
  /\ dirs = {CwdDir}
  /\ clock = CHOOSE ts \in Timestamps : \A other \in Timestamps : ts <= other
  /\ AllocIdle
  /\ SaveIdle
  /\ BatchIdle
  /\ EngineIdle
  /\ ConcIdle
  /\ ConfigIdle
  /\ GuiIdle

\* save_history on the list `changed`: it is cut to its last max_items entries
\* first, then written when the file can be opened; True when it was written
save_history(changed, io) ==
  /\ history' = LastItems(changed, max_items)
  /\ hEvicted' = hEvicted \cup (Items(changed) \ Items(LastItems(changed, max_items)))
  /\ hFile' = IF io = "ok" THEN [has |-> TRUE, list |-> LastItems(changed, max_items)]
              ELSE hFile

\* what every call leaves alone, and the count of calls
HistoryReturn ==
  /\ hCount' = hCount + 1
  /\ UNCHANGED << max_items, fs, dirs, clock, allocVars, saveVars, batchVars, engineVars,
                  concVars, configVars, guiVars >>

\* add_entry(compression_result, input_path): the entry is built, appended and
\* saved; when building it raises (compression_result is no dict) nothing is
\* appended
add_entry ==
  /\ hCount < MaxHistoryOps
  /\ \E built \in BOOLEAN, io \in {"ok", "fail"} :
       IF built
       THEN /\ save_history(Append(history, hNext), io)
            /\ hNext' = hNext + 1
            /\ hLast' = [called |-> TRUE, op |-> "add_entry", index |-> -1, ret |-> TRUE,
                         added |-> hNext, before |-> history]
       ELSE /\ hLast' = [called |-> TRUE, op |-> "add_entry", index |-> -1, ret |-> TRUE,
                         added |-> 0, before |-> history]
            /\ UNCHANGED << history, hFile, hNext, hEvicted >>
  /\ HistoryReturn

\* list.pop(index) for 0 <= index < len(list)
Popped(list, index) == SubSeq(list, 1, index) \o SubSeq(list, index + 2, Len(list))

\* the indices remove_entry is called with
HistoryIndices == -1..4

\* remove_entry(index): inside the range the entry is popped and the result
\* of save_history is returned; outside it False is returned
remove_entry ==
  /\ hCount < MaxHistoryOps
  /\ \E index \in HistoryIndices, io \in {"ok", "fail"} :
       IF 0 <= index /\ index < Len(history)
       THEN /\ save_history(Popped(history, index), io)
            /\ hLast' = [called |-> TRUE, op |-> "remove_entry", index |-> index,
                         ret |-> (io = "ok"), added |-> 0, before |-> history]
            /\ UNCHANGED hNext
       ELSE /\ hLast' = [called |-> TRUE, op |-> "remove_entry", index |-> index,
                         ret |-> FALSE, added |-> 0, before |-> history]
            /\ UNCHANGED << history, hFile, hNext, hEvicted >>
  /\ HistoryReturn

\* clear_history: self.history = [], then the result of save_history
clear_history ==
  /\ hCount < MaxHistoryOps
  /\ \E io \in {"ok", "fail"} :
       /\ save_history(<< >>, io)
       /\ hLast' = [called |-> TRUE, op |-> "clear_history", index |-> -1,
                    ret |-> (io = "ok"), added |-> 0, before |-> history]
  /\ UNCHANGED hNext
  /\ HistoryReturn

HistoryNext == add_entry \/ remove_entry \/ clear_history

SpecHistory == HistoryInit /\ [][HistoryNext]_vars

\* C29: with max_items >= 1, after any sequence of add_entry, remove_entry and
\* clear_history calls self.history holds at most max_items entries; they are
\* in the order they were added in, every entry the limit dropped is older
\* than every entry kept, and an entry just added is the last one; and
\* remove_entry with an index outside 0..len-1 returns False and leaves the
\* history as it was.
C29_HistoryBounded ==
  max_items >= 1 =>
    /\ Len(history) <= max_items
    /\ \A k \in 1..(Len(history) - 1) : history[k] < history[k + 1]
    /\ \A old \in hEvicted : \A k \in 1..Len(history) : old < history[k]
    /\ (hLast.called /\ hLast.op = "add_entry" /\ hLast.added > 0) =>
         /\ history # << >>
         /\ history[Len(history)] = hLast.added
         /\ Items(history) \subseteq Items(hLast.before) \cup {hLast.added}
    /\ (hLast.called /\ hLast.op = "remove_entry"
        /\ (hLast.index < 0 \/ hLast.index >= Len(hLast.before))) =>
         /\ hLast.ret = FALSE
         /\ history = hLast.before

\* the limit has dropped the oldest entries, the history is full, and a
\* remove_entry one past the end came back False
C29_Witness ==
  /\ max_items >= 1
  /\ hEvicted # {}
  /\ Len(history) = max_items
  /\ hLast.called
  /\ hLast.op = "remove_entry"
  /\ hLast.index = Len(history)
  /\ hLast.ret = FALSE
  /\ history = hLast.before

\* ------------------------------------- the GUI: UI thread and worker thread

\* how many times the user changes the selection in one behaviour
MaxSelections == 2

\* the default of HistoryManager's max_items
DefaultMaxItems == 100

\* the selections the user makes: one image, and two lists of two that differ
\* in which path is at which index
GuiSelections ==
  { << << "i", "/", "x", ".", "p", "n", "g" >> >>,
    << << "i", "/", "x", ".", "p", "n", "g" >>, << "i", "/", "b", "a", "d", ".", "p", "n", "g" >> >>,
    << << "j", "/", "x", ".", "p", "n", "g" >>, << "i", "/", "x", ".", "p", "n", "g" >> >> }

\* the arguments the worker calls compress_multiple_images with; its two
\* callbacks only schedule work on the UI thread and never raise
GuiBatchArgs(images) ==
  [image_paths |-> images, output_dir |-> OutDir, output_format |-> Ext_jpg,
   quality |-> DefaultQuality, new_size |-> << >>, maintain_aspect |-> TRUE,
   progress_callback |-> "ok", image_callback |-> "ok"]

\* compress_multiple_images from item i on: [results, fs]
RECURSIVE batch_from(_, _, _, _, _, _, _)
batch_after(ds, args, i, enc, ts, acc, run) ==
  batch_from(run.fs, ds, args, i + 1, enc, ts, Accumulate(acc, run.result))

batch_from(disk, ds, args, i, enc, ts, acc) ==
  IF i >= Len(args.image_paths) THEN [results |-> acc, fs |-> disk]
  ELSE batch_after(ds, args, i, enc, ts, acc, BatchItemRun(disk, ds, args, i, enc, ts, 4))

GuiInit ==
  /\ dirs = {CwdDir, OutDir, InDir, InDir2}
  /\ clock = CHOOSE ts \in Timestamps : \A other \in Timestamps : ts <= other
  /\ fs = [q \in { << "i", "/", "x", ".", "p", "n", "g" >>, << "j", "/", "x", ".", "p", "n", "g" >>,
                   << "i", "/", "b", "a", "d", ".", "p", "n", "g" >> } |->
             CASE q = << "i", "/", "x", ".", "p", "n", "g" >> ->
                    [kind |-> "image", format |-> "PNG", mode |-> "RGBA",
                     size |-> << 4, 3 >>, bytes |-> 9]
               [] q = << "j", "/", "x", ".", "p", "n", "g" >> ->
                    [kind |-> "image", format |-> "PNG", mode |-> "P",
                     size |-> << 2, 5 >>, bytes |-> 0]
               [] OTHER -> SomeFile]
  /\ selected_images = << >>
  /\ is_compressing = FALSE
  /\ gPc = "idle"
  /\ gImages = << >>
  /\ gResults = << >>
  /\ gI = 0
  /\ gLen = 0
  /\ gCount = 0
  /\ ConfigFresh(FALSE)
  /\ cfgLast = NoCall
  /\ cfgCount = 0
  /\ HistoryFresh(DefaultMaxItems, FALSE)
  /\ hLast = NoCall
  /\ hCount = 0
  /\ AllocIdle
  /\ SaveIdle
  /\ BatchIdle
  /\ EngineIdle
  /\ ConcIdle

\* what no GUI step touches
GuiFrame ==
  UNCHANGED << dirs, clock, allocVars, saveVars, batchVars, engineVars, concVars,
               default_config, cfgLast, cfgCount, max_items, hNext, hLast, hCount >>

\* select_images and the drop handlers (UI thread): self.selected_images is
\* bound to a new list, whether or not a compression is running, and
\* last_input_dir is stored, which rewrites the configuration file
GuiSelect ==
  /\ gCount < MaxSelections
  /\ \E files \in GuiSelections : selected_images' = files
  /\ gCount' = gCount + 1
  /\ cfgFile' = [has |-> TRUE, content |-> Resolved(config, heap)]
  /\ GuiFrame
  /\ UNCHANGED << fs, is_compressing, gPc, gImages, gResults, gI, gLen, config, heap,
                  history, hFile, hEvicted >>

\* clear_selection (UI thread): self.selected_images = []
GuiClear ==
  /\ gCount < MaxSelections
  /\ selected_images # << >>
  /\ selected_images' = << >>
  /\ gCount' = gCount + 1
  /\ GuiFrame
  /\ UNCHANGED << fs, is_compressing, gPc, gImages, gResults, gI, gLen, config, heap,
                  cfgFile, history, hFile, hEvicted >>

\* start_compression (UI thread): with a selection and no compression running
\* the settings and the recent format are stored and the worker is started
GuiStart ==
  /\ selected_images # << >>
  /\ ~is_compressing
  /\ gPc = "idle"
  /\ heap' = [[heap EXCEPT ![config.recent_formats] =
                 RecentTouched(heap[config.recent_formats], Ext_jpg)]
              EXCEPT !.O = FirstTen(RecentTouched(heap[config.recent_formats], Ext_jpg))]
  /\ config' = [Updated(config, [quality |-> DefaultQuality, output_format |-> Ext_jpg])
                EXCEPT !.recent_formats = "O"]
  /\ cfgFile' = [has |-> TRUE, content |-> Resolved(config', heap')]
  /\ is_compressing' = TRUE
  /\ gPc' = "started"
  /\ GuiFrame
  /\ UNCHANGED << fs, selected_images, gImages, gResults, gI, gLen, gCount,
                  history, hFile, hEvicted >>

\* what the engine's return leaves in the worker
GuiBatchReturned(images, batch) ==
  /\ gImages' = images
  /\ gResults' = batch.results
  /\ fs' = batch.fs

\* _compress_images_thread up to the history loop (worker): the list that
\* self.selected_images names now is handed to compress_multiple_images
GuiRunBatch ==
  /\ gPc = "started"
  /\ \E enc \in {"ok", "error"} :
       GuiBatchReturned(selected_images,
                        batch_from(fs, dirs, GuiBatchArgs(selected_images), 0, enc, clock, << >>))
  /\ gPc' = "history"
  /\ gI' = 0
  /\ GuiFrame
  /\ UNCHANGED << selected_images, is_compressing, gLen, gCount, config, heap, cfgFile,
                  history, hFile, hEvicted >>

\* the test `i < len(self.selected_images)` of the history loop (worker), for
\* result gI: the length is read from the list the attribute names now
GuiHistoryTest ==
  /\ gPc = "history"
  /\ gI < Len(gResults)
  /\ gLen' = Len(selected_images)
  /\ gPc' = IF gI < Len(selected_images) THEN "add" ELSE "history"
  /\ gI' = IF gI < Len(selected_images) THEN gI ELSE gI + 1
  /\ GuiFrame
  /\ UNCHANGED << fs, selected_images, is_compressing, gImages, gResults, gCount,
                  config, heap, cfgFile, history, hFile, hEvicted >>

\* the entry add_entry builds from a result and an input path
HistoryEntry(compression_result, input_path) ==
  [input_path |-> input_path,
   input_filename |-> basename(input_path),
   output_path |-> IF "output_path" \in DOMAIN compression_result
                   THEN compression_result.output_path ELSE << >>,
   success |-> compression_result.success]

\* self.history.add_entry(result, self.selected_images[i]) (worker): the
\* attribute is read again; an index past the end of the list it names now
\* raises, which ends the loop in the except clause of the thread
GuiHistoryAdd ==
  /\ gPc = "add"
  /\ IF gI < Len(selected_images)
     THEN /\ save_history(Append(history,
                                 HistoryEntry(gResults[gI + 1], selected_images[gI + 1])), "ok")
          /\ gPc' = "history"
          /\ gI' = gI + 1
     ELSE /\ gPc' = "finishing"
          /\ UNCHANGED << history, hFile, hEvicted, gI >>
  /\ GuiFrame
  /\ UNCHANGED << fs, selected_images, is_compressing, gImages, gResults, gLen, gCount,
                  config, heap, cfgFile >>

\* the end of the history loop (worker): the results dialog and
\* _compression_finished are scheduled on the UI thread
GuiHistoryDone ==
  /\ gPc = "history"
  /\ gI >= Len(gResults)
  /\ gPc' = "finishing"
  /\ GuiFrame
  /\ UNCHANGED << fs, selected_images, is_compressing, gImages, gResults, gI, gLen, gCount,
                  config, heap, cfgFile, history, hFile, hEvicted >>

\* _compression_finished (UI thread): self.is_compressing = False
GuiFinished ==
  /\ gPc = "finishing"
  /\ is_compressing' = FALSE
  /\ gPc' = "done"
  /\ GuiFrame
  /\ UNCHANGED << fs, selected_images, gImages, gResults, gI, gLen, gCount,
                  config, heap, cfgFile, history, hFile, hEvicted >>

GuiNext ==
  \/ GuiSelect \/ GuiClear \/ GuiStart \/ GuiRunBatch
  \/ GuiHistoryTest \/ GuiHistoryAdd \/ GuiHistoryDone \/ GuiFinished

SpecGui == GuiInit /\ [][GuiNext]_vars

\* C30: once the worker is through its history loop, one entry has been
\* written per result, and entry k pairs result k with the input path that
\* produced it, whatever the user did to the selection meanwhile.
C30_HistoryPairsResults ==
  gPc \in {"finishing", "done"} =>
    /\ Len(history) = Len(gResults)
    /\ \A k \in 1..Len(history) :
         k <= Len(gResults) =>
           /\ history[k].input_path = gImages[k]
           /\ history[k].success = gResults[k].success

====
